---- MODULE Spec2Model ----
(***************************************************************************)
(* Document processing pipeline of the invoice-finance repository:         *)
(*   ai-service/services/document_processor.py  (DocumentProcessor)        *)
(*   ocr-service/main.py                        (OCR endpoint)             *)
(* Text is a sequence of one-character strings; regular expressions are    *)
(* patterns interpreted by a backtracking matcher with Python's priority   *)
(* order (greedy / lazy quantifiers, ordered alternation).                 *)
(***************************************************************************)
EXTENDS Integers, Sequences, FiniteSets, TLC

\* process_document: the call's arguments, its position and its locals
VARIABLES pc, file_size, filename, document_type, content, validation_result,
          file_type, text_data, images, page_num, acc, extracted_data, parsed_data,
          result,
          \* instrumentation: the functions called, the OCR engine's answers per page,
          \* what magic.from_buffer gave in validate_document and in
          \* detect_file_type, what image_to_data gave in process_image
          calls, ocr_log, v_mime_type, d_mime_type, ocr_data

\* parsing as a pure function
VARIABLES p_lines, p_type, p_text, p_parsed, p_pc

\* extract_document_data (POST /api/v1/ocr/extract): the request, the handler's
\* position and locals, the response, and the collaborators called
VARIABLES o_pc, o_request, o_images, o_raw_text, o_structured, o_validation_errors,
          o_response, o_calls

\* enhance_image_for_ocr as a pure function: the image passed in, the statement
\* of the function that raises (if any), and the image returned
VARIABLES e_pc, e_image, e_fails, e_result

\* two callers of one DocumentProcessor: the attributes of the instance, and
\* per call its position, its arguments with the engines' answers to it, its
\* locals and its result
VARIABLES t_self, t_pc, t_call, t_local, t_result

\* generate_document_hash and verify_document_integrity: the SHA-256 function of
\* hashlib, the bytes absorbed by the hash object last created, the arguments
\* of the call and what it returned
VARIABLES h_pc, h_sha, h_hasher, h_file_data, h_expected_hash, h_returned

\* calculate_confidence as a pure function: its arguments and what it returns
VARIABLES s_pc, s_extracted_data, s_parsed_data, s_confidence

\* bulk_extract_documents: its position, the uploads and the document type of
\* the request, the index of the file the loop is at, its two lists and the
\* response
VARIABLES b_pc, b_files, b_type, b_index, b_results, b_failed_files, b_response

doc_vars == <<pc, file_size, filename, document_type, content, validation_result,
              file_type, text_data, images, page_num, acc, extracted_data,
              parsed_data, result, calls, ocr_log, v_mime_type, d_mime_type,
              ocr_data>>

parse_vars == <<p_lines, p_type, p_text, p_parsed, p_pc>>

ocr_vars == <<o_pc, o_request, o_images, o_raw_text, o_structured,
              o_validation_errors, o_response, o_calls>>

enh_vars == <<e_pc, e_image, e_fails, e_result>>

pair_vars == <<t_self, t_pc, t_call, t_local, t_result>>

hash_vars == <<h_pc, h_sha, h_hasher, h_file_data, h_expected_hash, h_returned>>

score_vars == <<s_pc, s_extracted_data, s_parsed_data, s_confidence>>

bulk_vars == <<b_pc, b_files, b_type, b_index, b_results, b_failed_files, b_response>>

aux_vars == <<pair_vars, hash_vars, score_vars, bulk_vars>>

vars == <<doc_vars, parse_vars, ocr_vars, enh_vars, aux_vars>>

(***************************************************************************)
(* Characters and strings                                                  *)
(***************************************************************************)
LowerCase == <<"a", "b", "c", "d", "e", "f", "g", "h", "i", "j", "k", "l", "m",
               "n", "o", "p", "q", "r", "s", "t", "u", "v", "w", "x", "y", "z">>

UpperCase == <<"A", "B", "C", "D", "E", "F", "G", "H", "I", "J", "K", "L", "M",
               "N", "O", "P", "Q", "R", "S", "T", "U", "V", "W", "X", "Y", "Z">>

DigitSeq == <<"0", "1", "2", "3", "4", "5", "6", "7", "8", "9">>

Range(s) == {s[i] : i \in 1..Len(s)}

Digits == Range(DigitSeq)

Letters == Range(LowerCase) \cup Range(UpperCase)

\* \s
Space == {" ", "\n", "\t"}

\* \w
WordChars == Letters \cup Digits \cup {"_"}

Punctuation == {":", "$", ",", ".", "-", "/", "#", "&", "(", ")", "@", "+", "%", "|", "!"}

\* every character a text of the model is made of
Alphabet == Letters \cup Digits \cup Space \cup Punctuation \cup {"_"}

\* str.lower() on one character
LowerChar(c) ==
    IF c \in Range(UpperCase)
    THEN LowerCase[CHOOSE i \in 1..Len(UpperCase) : UpperCase[i] = c]
    ELSE c

\* str.lower()
Lower(s) == [i \in 1..Len(s) |-> LowerChar(s[i])]

\* under re.IGNORECASE a literal letter matches either case
BothCases(c) ==
    IF c \in Letters
    THEN LET i == CHOOSE j \in 1..Len(LowerCase) : LowerCase[j] = c \/ UpperCase[j] = c
         IN  {LowerCase[i], UpperCase[i]}
    ELSE {c}

RECURSIVE LStrip(_)
LStrip(s) == IF s # <<>> /\ Head(s) \in Space THEN LStrip(Tail(s)) ELSE s

RECURSIVE RStrip(_)
RStrip(s) ==
    IF s # <<>> /\ s[Len(s)] \in Space THEN RStrip(SubSeq(s, 1, Len(s) - 1)) ELSE s

\* str.strip()
Strip(s) == RStrip(LStrip(s))

\* str.replace(c, '')
RemoveChar(s, c) == SelectSeq(s, LAMBDA x : x # c)

RECURSIVE SeqsUpTo(_, _)
SeqsUpTo(S, n) ==
    IF n = 0 THEN {<<>>}
    ELSE LET shorter == SeqsUpTo(S, n - 1)
         IN  shorter \cup {Append(s, x) : s \in {t \in shorter : Len(t) = n - 1}, x \in S}

\* sep.join(parts)
RECURSIVE Join(_, _)
Join(parts, sep) ==
    IF parts = <<>> THEN <<>>
    ELSE IF Len(parts) = 1 THEN parts[1]
    ELSE parts[1] \o sep \o Join(Tail(parts), sep)

(***************************************************************************)
(* Regular expressions (module re)                                         *)
(***************************************************************************)
Atom(k, cs, lo, hi, unb, lazy, g, alts) ==
    [k |-> k, cs |-> cs, lo |-> lo, hi |-> hi, unb |-> unb, lazy |-> lazy,
     g |-> g, alts |-> alts]

\* a character class repeated {lo,hi}, greedy
Rep(cs, lo, hi) == <<Atom("set", cs, lo, hi, FALSE, FALSE, 0, <<>>)>>

One(cs) == Rep(cs, 1, 1)

\* x?
Opt(cs) == Rep(cs, 0, 1)

\* x*
Star(cs) == <<Atom("set", cs, 0, 0, TRUE, FALSE, 0, <<>>)>>

\* x+
Plus(cs) == <<Atom("set", cs, 1, 0, TRUE, FALSE, 0, <<>>)>>

\* x+?
LazyPlus(cs) == <<Atom("set", cs, 1, 0, TRUE, TRUE, 0, <<>>)>>

\* (?:a|b|c)
Alt(alts) == <<Atom("alt", {}, 0, 0, FALSE, FALSE, 0, alts)>>

\* $
Eos == <<Atom("eos", {}, 0, 0, FALSE, FALSE, 0, <<>>)>>

\* \b
WordBoundary == <<Atom("wb", {}, 0, 0, FALSE, FALSE, 0, <<>>)>>

\* ( ... ) : capture group g
Group(g, pat) ==
    <<Atom("open", {}, 0, 0, FALSE, FALSE, g, <<>>)>> \o pat
        \o <<Atom("close", {}, 0, 0, FALSE, FALSE, g, <<>>)>>

\* a literal word compiled with re.IGNORECASE
Lit(w) == <<[k |-> "lit", w |-> w, fold |-> TRUE]>>

\* a literal word compiled without flags
LitCS(w) == <<[k |-> "lit", w |-> w, fold |-> FALSE]>>

\* the literal word w stands at position i of text
LitAt(w, fold, text, i) ==
    /\ i + Len(w) - 1 <= Len(text)
    /\ \A j \in 1..Len(w) : text[i + j - 1] \in (IF fold THEN BothCases(w[j]) ELSE {w[j]})

NoCaps == <<<<0, 0>>, <<0, 0>>, <<0, 0>>>>

NoMatch == [ok |-> FALSE, start |-> 0, end |-> 0, caps |-> NoCaps]

\* the number of consecutive characters of class cs at position i (at most hi)
RECURSIVE Run(_, _, _, _, _, _)
Run(text, i, cs, hi, unb, n) ==
    IF i + n <= Len(text) /\ text[i + n] \in cs /\ (unb \/ n < hi)
    THEN Run(text, i, cs, hi, unb, n + 1)
    ELSE n

\* re's backtracking match of pattern pat at position i of text
RECURSIVE Match(_, _, _, _)
RECURSIVE TryCounts(_, _, _, _, _, _, _)
RECURSIVE TryAlts(_, _, _, _, _, _)
Match(pat, text, i, caps) ==
    IF pat = <<>> THEN [ok |-> TRUE, start |-> 0, end |-> i, caps |-> caps]
    ELSE LET a == Head(pat)
             rest == Tail(pat)
         IN  CASE a.k = "open" ->
                    Match(rest, text, i, [caps EXCEPT ![a.g] = <<i, i>>])
               [] a.k = "close" ->
                    Match(rest, text, i, [caps EXCEPT ![a.g] = <<caps[a.g][1], i>>])
               [] a.k = "eos" ->
                    IF i = Len(text) + 1 \/ (i = Len(text) /\ text[i] = "\n")
                    THEN Match(rest, text, i, caps)
                    ELSE NoMatch
               [] a.k = "wb" ->
                    IF (i > 1 /\ text[i - 1] \in WordChars)
                           # (i <= Len(text) /\ text[i] \in WordChars)
                    THEN Match(rest, text, i, caps)
                    ELSE NoMatch
               [] a.k = "lit" ->
                    IF LitAt(a.w, a.fold, text, i)
                    THEN Match(rest, text, i + Len(a.w), caps)
                    ELSE NoMatch
               [] a.k = "alt" -> TryAlts(a.alts, 1, rest, text, i, caps)
               [] OTHER ->
                    LET n == Run(text, i, a.cs, a.hi, a.unb, 0)
                    IN  IF n < a.lo THEN NoMatch
                        ELSE TryCounts(a, rest, text, i, caps,
                                       IF a.lazy THEN a.lo ELSE n, n)

\* a quantified class that can take a.lo..n characters: the counts are tried
\* downwards from n (greedy) or upwards from a.lo (lazy)
TryCounts(a, rest, text, i, caps, c, n) ==
    LET r == Match(rest, text, i + c, caps)
    IN  IF r.ok THEN r
        ELSE IF a.lazy
             THEN IF c + 1 > n THEN NoMatch
                  ELSE TryCounts(a, rest, text, i, caps, c + 1, n)
             ELSE IF c - 1 < a.lo THEN NoMatch
                  ELSE TryCounts(a, rest, text, i, caps, c - 1, n)

TryAlts(alts, j, rest, text, i, caps) ==
    IF j > Len(alts) THEN NoMatch
    ELSE LET r == Match(alts[j] \o rest, text, i, caps)
         IN  IF r.ok THEN r ELSE TryAlts(alts, j + 1, rest, text, i, caps)

\* re.search(pat, text) scanning from position from: the leftmost match
Search(pat, text, from) ==
    LET hits == {j \in from..(Len(text) + 1) : Match(pat, text, j, NoCaps).ok}
    IN  IF hits = {} THEN NoMatch
        ELSE LET s == CHOOSE j \in hits : \A k \in hits : j <= k
             IN  [Match(pat, text, s, NoCaps) EXCEPT !.start = s]

\* match.group(g)
GroupText(text, m, g) == SubSeq(text, m.caps[g][1], m.caps[g][2] - 1)

\* match.group(0)
WholeText(text, m) == SubSeq(text, m.start, m.end - 1)

\* the non-overlapping matches of pat in text, left to right (re.finditer)
RECURSIVE FindallMatches(_, _, _)
FindallMatches(pat, text, from) ==
    LET m == Search(pat, text, from)
    IN  IF ~m.ok THEN <<>>
        ELSE <<m>> \o FindallMatches(pat, text,
                                     IF m.end = m.start THEN m.end + 1 ELSE m.end)

\* re.findall(pat, text) for a pattern with one group: each match's group
Findall(pat, text) ==
    LET ms == FindallMatches(pat, text, 1)
    IN  [i \in 1..Len(ms) |-> GroupText(text, ms[i], 1)]

(***************************************************************************)
(* float(): numbers are exact rationals [num, den], den a power of ten     *)
(***************************************************************************)
DigitVal(c) == (CHOOSE i \in 1..Len(DigitSeq) : DigitSeq[i] = c) - 1

RECURSIVE DigitsVal(_, _)
DigitsVal(s, v) ==
    IF s = <<>> THEN v ELSE DigitsVal(Tail(s), v * 10 + DigitVal(Head(s)))

RECURSIVE Pow10(_)
Pow10(k) == IF k = 0 THEN 1 ELSE 10 * Pow10(k - 1)

\* a text that is no number converts to 0
FloatOrZero(s) ==
    LET dots == {i \in 1..Len(s) : s[i] = "."}
        ndig == Cardinality({i \in 1..Len(s) : s[i] \in Digits})
    IN  IF ndig = 0 \/ Cardinality(dots) > 1 \/ ndig + Cardinality(dots) # Len(s)
        THEN [ok |-> TRUE, num |-> 0, den |-> 1]
        ELSE IF dots = {}
             THEN [ok |-> TRUE, num |-> DigitsVal(s, 0), den |-> 1]
             ELSE LET d == CHOOSE i \in dots : TRUE
                      frac == SubSeq(s, d + 1, Len(s))
                  IN  [ok |-> TRUE,
                       num |-> DigitsVal(SubSeq(s, 1, d - 1) \o frac, 0),
                       den |-> Pow10(Len(frac))]

\* float(s) for s over digits and '.', ok = FALSE where Python raises ValueError
ToFloat(s) ==
    LET dots == {i \in 1..Len(s) : s[i] = "."}
        ndig == Cardinality({i \in 1..Len(s) : s[i] \in Digits})
    IN  IF ndig = 0 \/ Cardinality(dots) > 1 \/ ndig + Cardinality(dots) # Len(s)
        THEN [ok |-> FALSE, num |-> 0, den |-> 1]
        ELSE IF dots = {}
             THEN [ok |-> TRUE, num |-> DigitsVal(s, 0), den |-> 1]
             ELSE LET d == CHOOSE i \in dots : TRUE
                      frac == SubSeq(s, d + 1, Len(s))
                  IN  [ok |-> TRUE,
                       num |-> DigitsVal(SubSeq(s, 1, d - 1) \o frac, 0),
                       den |-> Pow10(Len(frac))]

NumLess(a, b) == a.num * b.den < b.num * a.den

NumEq(a, b) == a.num * b.den = b.num * a.den

\* max(amounts)
RECURSIVE MaxNum(_)
MaxNum(amounts) ==
    IF Len(amounts) = 1 THEN amounts[1]
    ELSE LET m == MaxNum(Tail(amounts))
         IN  IF NumLess(amounts[1], m) THEN m ELSE amounts[1]

(***************************************************************************)
(* Dictionaries: a dict is a function from its keys                        *)
(***************************************************************************)
EmptyDict == <<>>

Put(d, k, v) == [x \in DOMAIN d \cup {k} |-> IF x = k THEN v ELSE d[x]]

Has(d, k) == k \in DOMAIN d

\* if found: d[k] = v
SetIf(d, found, k, v) == IF found THEN Put(d, k, v) ELSE d

(***************************************************************************)
(* DocumentProcessor: field parsers                                        *)
(***************************************************************************)
\* the literal words of the patterns and of the document types
W ==
    [total |-> <<"t", "o", "t", "a", "l">>,
     amount |-> <<"a", "m", "o", "u", "n", "t">>,
     due |-> <<"d", "u", "e">>,
     balance |-> <<"b", "a", "l", "a", "n", "c", "e">>,
     invoice |-> <<"i", "n", "v", "o", "i", "c", "e">>,
     number |-> <<"n", "u", "m", "b", "e", "r">>,
     no |-> <<"n", "o">>,
     inv |-> <<"i", "n", "v">>,
     bill |-> <<"b", "i", "l", "l">>,
     date |-> <<"d", "a", "t", "e">>,
     to |-> <<"t", "o">>,
     customer |-> <<"c", "u", "s", "t", "o", "m", "e", "r">>,
     payment |-> <<"p", "a", "y", "m", "e", "n", "t">>,
     between |-> <<"b", "e", "t", "w", "e", "e", "n">>,
     and |-> <<"a", "n", "d">>,
     party |-> <<"p", "a", "r", "t", "y">>,
     one |-> <<"o", "n", "e">>,
     two |-> <<"t", "w", "o">>,
     of |-> <<"o", "f">>,
     value |-> <<"v", "a", "l", "u", "e">>,
     consideration |-> <<"c", "o", "n", "s", "i", "d", "e", "r", "a", "t", "i", "o", "n">>,
     effective |-> <<"e", "f", "f", "e", "c", "t", "i", "v", "e">>,
     start |-> <<"s", "t", "a", "r", "t">>,
     end |-> <<"e", "n", "d">>,
     name |-> <<"n", "a", "m", "e">>,
     full |-> <<"f", "u", "l", "l">>,
     id |-> <<"i", "d">>,
     license |-> <<"l", "i", "c", "e", "n", "s", "e">>,
     passport |-> <<"p", "a", "s", "s", "p", "o", "r", "t">>,
     dob |-> <<"d", "o", "b">>,
     birth |-> <<"b", "i", "r", "t", "h">>,
     born |-> <<"b", "o", "r", "n">>,
     account |-> <<"a", "c", "c", "o", "u", "n", "t">>,
     acct |-> <<"a", "c", "c", "t">>,
     current |-> <<"c", "u", "r", "r", "e", "n", "t">>,
     ending |-> <<"e", "n", "d", "i", "n", "g">>,
     statement |-> <<"s", "t", "a", "t", "e", "m", "e", "n", "t">>,
     period |-> <<"p", "e", "r", "i", "o", "d">>,
     from |-> <<"f", "r", "o", "m">>,
     contract |-> <<"c", "o", "n", "t", "r", "a", "c", "t">>,
     identity |-> <<"i", "d", "e", "n", "t", "i", "t", "y">>,
     bank_statement |-> <<"b", "a", "n", "k", "_", "s", "t", "a", "t", "e", "m", "e", "n", "t">>,
     application_pdf |-> <<"a", "p", "p", "l", "i", "c", "a", "t", "i", "o", "n", "/", "p", "d", "f">>,
     image_png |-> <<"i", "m", "a", "g", "e", "/", "p", "n", "g">>,
     image_jpeg |-> <<"i", "m", "a", "g", "e", "/", "j", "p", "e", "g">>,
     image_tiff |-> <<"i", "m", "a", "g", "e", "/", "t", "i", "f", "f">>,
     image_bmp |-> <<"i", "m", "a", "g", "e", "/", "b", "m", "p">>,
     text_plain |-> <<"t", "e", "x", "t", "/", "p", "l", "a", "i", "n">>,
     pdf |-> <<"p", "d", "f">>,
     png |-> <<"p", "n", "g">>,
     jpg |-> <<"j", "p", "g">>,
     jpeg |-> <<"j", "p", "e", "g">>,
     tiff |-> <<"t", "i", "f", "f">>,
     bmp |-> <<"b", "m", "p">>,
     image |-> <<"i", "m", "a", "g", "e">>,
     page_open |-> <<"-", "-", "-", " ", "P", "a", "g", "e", " ">>,
     page_close |-> <<" ", "-", "-", "-", "\n">>]

\* \s*:?\s*
Sep == Star(Space) \o Opt({":"}) \o Star(Space)

\* ([0-9,]+\.?[0-9]*)
NumberGroup == Group(1, Plus(Digits \cup {","}) \o Opt({"."}) \o Star(Digits))

\* (\d{1,2}[-/]\d{1,2}[-/]\d{2,4})
DateBody == Rep(Digits, 1, 2) \o One({"-", "/"}) \o Rep(Digits, 1, 2)
                \o One({"-", "/"}) \o Rep(Digits, 2, 4)

DateGroup == Group(1, DateBody)

\* [A-Z0-9\-_] under re.IGNORECASE
IdChars == Letters \cup Digits \cup {"-", "_"}

\* [A-Za-z0-9\s&.,()-]
NameChars == Letters \cup Digits \cup Space \cup {"&", ".", ",", "(", ")", "-"}

\* (?:\n|$)
EndOfLine == Alt(<<One({"\n"}), Eos>>)

\* (?:number|#|no\.?)
NumberWord == Alt(<<Lit(W.number), One({"#"}), Lit(W.no) \o Opt({"."})>>)

invoice_patterns ==
    <<Lit(W.invoice) \o Star(Space) \o NumberWord \o Sep \o Group(1, Plus(IdChars)),
      Lit(W.inv) \o Star(Space) \o NumberWord \o Sep \o Group(1, Plus(IdChars)),
      Lit(W.bill) \o Star(Space) \o NumberWord \o Sep \o Group(1, Plus(IdChars))>>

amount_patterns ==
    <<Lit(W.total) \o Sep \o Opt({"$"}) \o NumberGroup,
      Lit(W.amount) \o Star(Space) \o Lit(W.due) \o Sep \o Opt({"$"}) \o NumberGroup,
      Lit(W.balance) \o Sep \o Opt({"$"}) \o NumberGroup,
      One({"$"}) \o NumberGroup>>

\* date patterns with the invoice date label before the generic one
SpecificFirstDatePatterns ==
    <<Lit(W.invoice) \o Star(Space) \o Lit(W.date) \o Sep \o DateGroup,
      Lit(W.date) \o Sep \o DateGroup,
      DateGroup>>

invoice_date_patterns ==
    <<Lit(W.date) \o Sep \o DateGroup,
      Lit(W.invoice) \o Star(Space) \o Lit(W.date) \o Sep \o DateGroup,
      DateGroup>>

company_patterns ==
    <<Lit(W.bill) \o Star(Space) \o Lit(W.to) \o Sep
          \o Group(1, LazyPlus(NameChars)) \o EndOfLine,
      Lit(W.customer) \o Sep \o Group(1, LazyPlus(NameChars)) \o EndOfLine,
      Lit(W.to) \o Sep \o Group(1, LazyPlus(NameChars)) \o EndOfLine>>

due_date_patterns ==
    <<Lit(W.due) \o Star(Space) \o Lit(W.date) \o Sep \o DateGroup,
      Lit(W.payment) \o Star(Space) \o Lit(W.due) \o Sep \o DateGroup>>

\* for pattern in patterns: match = re.search(...); if match: ...; break
RECURSIVE FirstSearch(_, _)
FirstSearch(patterns, text) ==
    IF patterns = <<>> THEN NoMatch
    ELSE LET m == Search(Head(patterns), text, 1)
         IN  IF m.ok THEN m ELSE FirstSearch(Tail(patterns), text)

\* float(match.replace(',', '')) of every candidate, a ValueError skipping it
RECURSIVE ToAmounts(_)
ToAmounts(matches) ==
    IF matches = <<>> THEN <<>>
    ELSE LET f == ToFloat(RemoveChar(Head(matches), ","))
         IN  (IF f.ok THEN <<[num |-> f.num, den |-> f.den]>> ELSE <<>>)
                 \o ToAmounts(Tail(matches))

\* the amounts list: every pattern's findall, in pattern order
RECURSIVE AllAmounts(_, _)
AllAmounts(patterns, text) ==
    IF patterns = <<>> THEN <<>>
    ELSE ToAmounts(Findall(Head(patterns), text)) \o AllAmounts(Tail(patterns), text)

PickLast(amounts) == amounts[Len(amounts)]

\* parsed_data['amount'] = max(amounts)
PickAmount(amounts) == MaxNum(amounts)

\* the customer loop breaks only on a name longer than 3
RECURSIVE CustomerName(_, _)
CustomerName(patterns, text) ==
    IF patterns = <<>> THEN [ok |-> FALSE, name |-> <<>>]
    ELSE LET m == Search(Head(patterns), text, 1)
             customer_name == Strip(GroupText(text, m, 1))
         IN  IF m.ok /\ Len(customer_name) > 3
             THEN [ok |-> TRUE, name |-> customer_name]
             ELSE CustomerName(Tail(patterns), text)

parse_invoice_content(text) ==
    LET inv == FirstSearch(invoice_patterns, text)
        amounts == AllAmounts(amount_patterns, text)
        dt == FirstSearch(invoice_date_patterns, text)
        cust == CustomerName(company_patterns, text)
        due == FirstSearch(due_date_patterns, text)
    IN  SetIf(SetIf(SetIf(SetIf(SetIf(EmptyDict,
            inv.ok, "invoice_number", GroupText(text, inv, 1)),
            amounts # <<>>, "amount", PickAmount(amounts)),
            dt.ok, "date", GroupText(text, dt, 1)),
            cust.ok, "customer_name", cust.name),
            due.ok, "due_date", GroupText(text, due, 1))

\* [^,\n]
NotCommaNewline == Alphabet \ {",", "\n"}

\* [-.\s]
PhoneSep == {"-", "."} \cup Space

\* x{lo,}
RepMin(cs, lo) == <<Atom("set", cs, lo, 0, TRUE, FALSE, 0, <<>>)>>

party_patterns ==
    <<Lit(W.between) \o Plus(Space) \o Group(1, Plus(NotCommaNewline)) \o Plus(Space)
          \o Lit(W.and) \o Plus(Space) \o Group(2, Plus(NotCommaNewline)),
      Lit(W.party) \o Star(Space) \o Alt(<<One({"1"}), Lit(W.one)>>) \o Sep
          \o Group(1, LazyPlus(NameChars)) \o Alt(<<One({"\n"}), Lit(W.party)>>),
      Lit(W.party) \o Star(Space) \o Alt(<<One({"2"}), Lit(W.two)>>) \o Sep
          \o Group(1, LazyPlus(NameChars)) \o EndOfLine>>

value_patterns ==
    <<Lit(W.amount) \o Star(Space) \o Lit(W.of) \o Star(Space) \o Opt({"$"}) \o NumberGroup,
      Lit(W.value) \o Sep \o Opt({"$"}) \o NumberGroup,
      Lit(W.consideration) \o Sep \o Opt({"$"}) \o NumberGroup>>

\* each pattern with the key pattern.split('\\')[0].replace('s*', '_') gives it
contract_date_patterns ==
    <<[key |-> "effective",
       pat |-> Lit(W.effective) \o Star(Space) \o Lit(W.date) \o Sep \o DateGroup],
      [key |-> "start",
       pat |-> Lit(W.start) \o Star(Space) \o Lit(W.date) \o Sep \o DateGroup],
      [key |-> "end",
       pat |-> Lit(W.end) \o Star(Space) \o Lit(W.date) \o Sep \o DateGroup]>>

\* parties.extend([p.strip() for p in match if p.strip()]) for a two-group pattern
RECURSIVE TupleParties(_, _)
TupleParties(ms, text) ==
    IF ms = <<>> THEN <<>>
    ELSE LET a == Strip(GroupText(text, Head(ms), 1))
             b == Strip(GroupText(text, Head(ms), 2))
         IN  (IF a # <<>> THEN <<a>> ELSE <<>>) \o (IF b # <<>> THEN <<b>> ELSE <<>>)
                 \o TupleParties(Tail(ms), text)

\* parties.append(match.strip()) for a one-group pattern
StringParties(ms, text) == [i \in 1..Len(ms) |-> Strip(GroupText(text, ms[i], 1))]

\* for pattern: match = re.search; if match: try float ... break / except: continue
RECURSIVE FirstFloat(_, _)
FirstFloat(patterns, text) ==
    IF patterns = <<>> THEN [ok |-> FALSE, num |-> 0, den |-> 1]
    ELSE LET m == Search(Head(patterns), text, 1)
             f == ToFloat(RemoveChar(GroupText(text, m, 1), ","))
         IN  IF m.ok /\ f.ok THEN f ELSE FirstFloat(Tail(patterns), text)

\* the contract date loop has no break: every matching pattern sets its key
RECURSIVE ContractDates(_, _, _)
ContractDates(patterns, text, d) ==
    IF patterns = <<>> THEN d
    ELSE LET m == Search(Head(patterns).pat, text, 1)
         IN  ContractDates(Tail(patterns), text,
                           IF m.ok THEN Put(d, Head(patterns).key, GroupText(text, m, 1))
                           ELSE d)

Prefix(s, n) == SubSeq(s, 1, IF Len(s) < n THEN Len(s) ELSE n)

parse_contract_content(text) ==
    LET parties == TupleParties(FindallMatches(party_patterns[1], text, 1), text)
                       \o StringParties(FindallMatches(party_patterns[2], text, 1), text)
                       \o StringParties(FindallMatches(party_patterns[3], text, 1), text)
        val == FirstFloat(value_patterns, text)
    IN  ContractDates(contract_date_patterns, text,
            SetIf(SetIf(EmptyDict,
                parties # <<>>, "parties", Prefix(parties, 2)),
                val.ok, "contract_value", [num |-> val.num, den |-> val.den]))

name_patterns ==
    <<Lit(W.name) \o Sep \o Group(1, LazyPlus(Letters \cup Space)) \o EndOfLine,
      Lit(W.full) \o Star(Space) \o Lit(W.name) \o Sep
          \o Group(1, LazyPlus(Letters \cup Space)) \o EndOfLine>>

\* (?:number|no\.?)
NumberOrNo == Alt(<<Lit(W.number), Lit(W.no) \o Opt({"."})>>)

id_patterns ==
    <<Lit(W.id) \o Star(Space) \o NumberOrNo \o Sep \o Group(1, Plus(Letters \cup Digits)),
      Lit(W.license) \o Star(Space) \o NumberOrNo \o Sep
          \o Group(1, Plus(Letters \cup Digits)),
      Lit(W.passport) \o Star(Space) \o NumberOrNo \o Sep
          \o Group(1, Plus(Letters \cup Digits))>>

dob_patterns ==
    <<Alt(<<Lit(W.dob),
            Lit(W.date) \o Star(Space) \o Lit(W.of) \o Star(Space) \o Lit(W.birth)>>)
          \o Sep \o DateGroup,
      Lit(W.born) \o Sep \o DateGroup>>

parse_identity_content(text) ==
    LET nm == FirstSearch(name_patterns, text)
        id == FirstSearch(id_patterns, text)
        dob == FirstSearch(dob_patterns, text)
    IN  SetIf(SetIf(SetIf(EmptyDict,
            nm.ok, "name", Strip(GroupText(text, nm, 1))),
            id.ok, "id_number", GroupText(text, id, 1)),
            dob.ok, "date_of_birth", GroupText(text, dob, 1))

account_patterns ==
    <<Lit(W.account) \o Star(Space) \o NumberOrNo \o Sep
          \o Group(1, Plus(Digits \cup {"-"})),
      Lit(W.acct) \o Star(Space) \o NumberOrNo \o Sep
          \o Group(1, Plus(Digits \cup {"-"}))>>

balance_patterns ==
    <<Lit(W.balance) \o Sep \o Opt({"$"}) \o NumberGroup,
      Lit(W.current) \o Star(Space) \o Lit(W.balance) \o Sep \o Opt({"$"}) \o NumberGroup,
      Lit(W.ending) \o Star(Space) \o Lit(W.balance) \o Sep \o Opt({"$"}) \o NumberGroup>>

period_patterns ==
    <<Lit(W.statement) \o Star(Space) \o Lit(W.period) \o Sep \o Group(1, DateBody)
          \o Star(Space) \o Alt(<<Lit(W.to), One({"-"})>>) \o Star(Space)
          \o Group(2, DateBody),
      Lit(W.from) \o Star(Space) \o Group(1, DateBody) \o Star(Space) \o Lit(W.to)
          \o Star(Space) \o Group(2, DateBody)>>

parse_bank_statement_content(text) ==
    LET acct == FirstSearch(account_patterns, text)
        bal == FirstFloat(balance_patterns, text)
        per == FirstSearch(period_patterns, text)
    IN  SetIf(SetIf(SetIf(SetIf(EmptyDict,
            acct.ok, "account_number", GroupText(text, acct, 1)),
            bal.ok, "balance", [num |-> bal.num, den |-> bal.den]),
            per.ok, "period_start", GroupText(text, per, 1)),
            per.ok, "period_end", GroupText(text, per, 2))

\* \$?([0-9,]+\.?[0-9]*), compiled without flags
generic_amount_pattern == Opt({"$"}) \o NumberGroup

\* \b[A-Za-z0-9._%+-]+@[A-Za-z0-9.-]+\.[A-Z|a-z]{2,}\b
email_pattern ==
    WordBoundary \o Plus(Letters \cup Digits \cup {".", "_", "%", "+", "-"}) \o One({"@"})
        \o Plus(Letters \cup Digits \cup {".", "-"}) \o One({"."})
        \o RepMin(Letters \cup {"|"}, 2) \o WordBoundary

\* (?:\+?1[-.\s]?)?\(?([0-9]{3})\)?[-.\s]?([0-9]{3})[-.\s]?([0-9]{4})
phone_pattern ==
    Alt(<<Opt({"+"}) \o One({"1"}) \o Opt(PhoneSep), <<>>>>) \o Opt({"("})
        \o Group(1, Rep(Digits, 3, 3)) \o Opt({")"}) \o Opt(PhoneSep)
        \o Group(2, Rep(Digits, 3, 3)) \o Opt(PhoneSep) \o Group(3, Rep(Digits, 4, 4))

\* f"({p[0]}) {p[1]}-{p[2]}"
FormatPhone(text, m) ==
    <<"(">> \o GroupText(text, m, 1) \o <<")", " ">> \o GroupText(text, m, 2)
        \o <<"-">> \o GroupText(text, m, 3)

parse_generic_content(text) ==
    LET dates == FindallMatches(DateBody, text, 1)
        numeric_amounts == ToAmounts(Findall(generic_amount_pattern, text))
        emails == FindallMatches(email_pattern, text, 1)
        phones == FindallMatches(phone_pattern, text, 1)
    IN  SetIf(SetIf(SetIf(SetIf(EmptyDict,
            dates # <<>>, "dates_found",
                [i \in 1..Len(dates) |-> WholeText(text, dates[i])]),
            numeric_amounts # <<>>, "amounts_found", numeric_amounts),
            emails # <<>>, "emails_found",
                [i \in 1..Len(emails) |-> WholeText(text, emails[i])]),
            phones # <<>>, "phones_found",
                [i \in 1..Len(phones) |-> FormatPhone(text, phones[i])])

\* the document type compared as given, without lower()
DispatchCaseSensitive(text, dtype) ==
    CASE dtype = W.invoice -> parse_invoice_content(text)
      [] dtype = W.contract -> parse_contract_content(text)
      [] dtype = W.identity -> parse_identity_content(text)
      [] dtype = W.bank_statement -> parse_bank_statement_content(text)
      [] OTHER -> parse_generic_content(text)

parse_document_content(text, dtype) ==
    CASE Lower(dtype) = W.invoice -> parse_invoice_content(text)
      [] Lower(dtype) = W.contract -> parse_contract_content(text)
      [] Lower(dtype) = W.identity -> parse_identity_content(text)
      [] Lower(dtype) = W.bank_statement -> parse_bank_statement_content(text)
      [] OTHER -> parse_generic_content(text)

(***************************************************************************)
(* DocumentProcessor: validation, format detection, extraction, scoring    *)
(***************************************************************************)
\* settings.max_file_size, in bytes
max_file_size == 10485760

supported_formats == <<W.pdf, W.png, W.jpg, W.jpeg, W.tiff, W.bmp>>

\* s.split(c)[-1]
SplitLast(s, c) ==
    LET at == {i \in 1..Len(s) : s[i] = c}
    IN  IF at = {} THEN s
        ELSE SubSeq(s, (CHOOSE i \in at : \A j \in at : j <= i) + 1, Len(s))

\* sub in s
Contains(sub, s) == Search(LitCS(sub), s, 1).ok

expected_mimes(file_ext) ==
    CASE file_ext = W.pdf -> W.application_pdf
      [] file_ext = W.png -> W.image_png
      [] file_ext = W.jpg -> W.image_jpeg
      [] file_ext = W.jpeg -> W.image_jpeg
      [] file_ext = W.tiff -> W.image_tiff
      [] file_ext = W.bmp -> W.image_bmp

\* validate_document gets as far as the call of magic.from_buffer
ProbeReached(size, name) ==
    size <= max_file_size /\ Lower(SplitLast(name, ".")) \in Range(supported_formats)

\* a validation without the check of the content against the suffix
ValidateWithoutSignature(size, name, probe) ==
    IF size > max_file_size
    THEN [is_valid |-> FALSE, error |-> "File size exceeds maximum limit"]
    ELSE IF Lower(SplitLast(name, ".")) \notin Range(supported_formats)
    THEN [is_valid |-> FALSE, error |-> "Unsupported file format"]
    ELSE [is_valid |-> TRUE, error |-> ""]

\* a validation that rejects nothing
AcceptAnyDocument(size, name, probe) == [is_valid |-> TRUE, error |-> ""]

\* the attributes __init__ and setup_tesseract give the instance
DocumentProcessor ==
    [supported_formats |-> supported_formats, max_file_size |-> max_file_size,
     tesseract_config |-> "settings.tesseract_config"]

\* validate_document as a method of the instance self;
\* probe is the outcome of magic.from_buffer: it raises, or it gives a MIME type
validate_document_self(self, size, name, probe) ==
    LET file_ext == Lower(SplitLast(name, "."))
    IN  IF size > self.max_file_size
        THEN [is_valid |-> FALSE, error |-> "File size exceeds maximum limit"]
        ELSE IF file_ext \notin Range(self.supported_formats)
        THEN [is_valid |-> FALSE, error |-> "Unsupported file format"]
        ELSE IF ~probe.raises /\ ~Contains(expected_mimes(file_ext), probe.mime)
        THEN [is_valid |-> FALSE, error |-> "File content doesn't match extension"]
        ELSE [is_valid |-> TRUE, error |-> ""]

\* validate_document on the instance as constructed
validate_document(size, name, probe) ==
    validate_document_self(DocumentProcessor, size, name, probe)

detect_file_type(name, probe) ==
    LET file_ext == Lower(SplitLast(name, "."))
    IN  IF probe.raises THEN file_ext
        ELSE IF Contains(W.pdf, probe.mime) THEN W.pdf
        ELSE IF Contains(W.image, probe.mime) THEN file_ext
        ELSE file_ext

\* str(n)
RECURSIVE Str(_)
Str(n) == IF n < 10 THEN <<DigitSeq[n + 1]>> ELSE Str(n \div 10) \o <<DigitSeq[(n % 10) + 1]>>

\* f"--- Page {page_num + 1} ---\n{page_text}"
PageSegment(n, page_text) == W.page_open \o Str(n) \o W.page_close \o page_text

Issue(msg, page) == [msg |-> msg, page |-> page]

\* an extraction outcome; raised = an exception leaves the function instead
Outcome(text, method, metadata, issues) ==
    [raised |-> FALSE, text |-> text, method |-> method, metadata |-> metadata,
     issues |-> issues]

Raised == [raised |-> TRUE, text |-> <<>>, method |-> "", metadata |-> EmptyDict,
           issues |-> <<>>]

\* an error outcome that keeps text read before the failure
ErrorKeepsText(msg) ==
    Outcome(<<"T", "o", "t", "a", "l", ":", " ", "$", "5">>, "error", EmptyDict,
            <<Issue(msg, 0)>>)

\* an error outcome that records no issue
ErrorWithoutIssue(msg) == Outcome(<<>>, "error", EmptyDict, <<>>)

\* the except branches of process_pdf, process_scanned_pdf and process_image
ErrorOutcome(msg) == Outcome(<<>>, "error", EmptyDict, <<Issue(msg, 0)>>)

\* the page loop of extract_text_from_pdf: a page whose extraction raises, or
\* whose text is blank, is skipped
RECURSIVE DigitalSegments(_, _)
DigitalSegments(pages, n) ==
    IF n >= Len(pages) THEN <<>>
    ELSE LET page == pages[n + 1]
         IN  (IF ~page.raises /\ Strip(page.text) # <<>>
              THEN <<PageSegment(n + 1, page.text)>>
              ELSE <<>>) \o DigitalSegments(pages, n + 1)

\* the document-information entries (title, author, ...) are left out of metadata
extract_text_from_pdf(reader_raises, pages) ==
    IF reader_raises THEN [text |-> <<>>, metadata |-> EmptyDict]
    ELSE [text |-> Join(DigitalSegments(pages, 0), <<"\n", "\n">>),
          metadata |-> Put(EmptyDict, "page_count", Len(pages))]

\* len(text_data['text']) > 50
DigitalMinLength == 50

\* a process_pdf that never takes the digital branch
NeverDigital(td) == FALSE

\* a process_pdf that accepts a digital text of 50 characters
AcceptsFrom50(td) == Strip(td.text) # <<>> /\ Len(td.text) >= 50

\* text_data['text'].strip() and len(text_data['text']) > 50
DigitalAccepted(td) ==
    Strip(td.text) # <<>> /\ Len(td.text) > DigitalMinLength

\* the digital branch of process_pdf
\* the digital branch reporting a confidence of 100 percent as OCR does
DigitalOutcomeScored(td) ==
    Outcome(td.text, "text_extraction", Put(td.metadata, "avg_confidence", 1000), <<>>)

DigitalOutcome(td) ==
    Outcome(td.text, "text_extraction", td.metadata, <<>>)

\* a page loop that puts each page's text in front of the earlier ones
ScannedPagePrepend(a, n, ocr) ==
    IF ocr.raises \/ Strip(ocr.text) = <<>>
    THEN [a EXCEPT !.issues = Append(@, Issue("No text on page", n + 1))]
    ELSE [a EXCEPT !.all_text = <<PageSegment(n + 1, ocr.text)>> \o @]

\* a page loop that passes over a page without text in silence
ScannedPageSkipsBlank(a, n, ocr) ==
    IF ocr.raises
    THEN [a EXCEPT !.issues = Append(@, Issue("OCR error on page", n + 1))]
    ELSE IF Strip(ocr.text) # <<>>
    THEN [a EXCEPT !.all_text = Append(@, PageSegment(n + 1, ocr.text))]
    ELSE a

\* one iteration of the page loop of process_scanned_pdf on page page_num + 1,
\* acc = [all_text, issues]; ocr is the outcome of image_to_string
ScannedPage(a, n, ocr) ==
    IF ocr.raises
    THEN [a EXCEPT !.issues = Append(@, Issue("OCR error on page", n + 1))]
    ELSE IF Strip(ocr.text) # <<>>
    THEN [a EXCEPT !.all_text = Append(@, PageSegment(n + 1, ocr.text))]
    ELSE [a EXCEPT !.issues = Append(@, Issue("No text detected on page", n + 1))]

\* the return of process_scanned_pdf after the page loop
ScannedOutcome(a, page_count) ==
    Outcome(Join(a.all_text, <<"\n", "\n">>), "ocr_pdf",
            Put(EmptyDict, "page_count", page_count), a.issues)

\* the page loop of process_scanned_pdf from page n + 1 on; ocrs are the outcomes
\* of image_to_string, one per rendered page
RECURSIVE ScannedPages(_, _, _)
ScannedPages(a, n, ocrs) ==
    IF n >= Len(ocrs) THEN a
    ELSE ScannedPages(ScannedPage(a, n, ocrs[n + 1]), n + 1, ocrs)

\* process_scanned_pdf as a whole: convert_from_bytes raises, or every rendered
\* page is read in turn
process_scanned_pdf(convert_raises, ocrs) ==
    IF convert_raises THEN ErrorOutcome("Scanned PDF processing error")
    ELSE ScannedOutcome(ScannedPages([all_text |-> <<>>, issues |-> <<>>], 0, ocrs),
                        Len(ocrs))

\* process_pdf as a whole
process_pdf(reader_raises, pages, convert_raises, ocrs) ==
    LET td == extract_text_from_pdf(reader_raises, pages)
    IN  IF DigitalAccepted(td) THEN DigitalOutcome(td)
        ELSE process_scanned_pdf(convert_raises, ocrs)

\* int(conf) > 30
MinTokenConfidence == 30

\* avg_confidence < 70
LowConfidence == 70

\* len(full_text) < 50
ShortText == 50

RECURSIVE SumConf(_)
SumConf(tokens) == IF tokens = <<>> THEN 0 ELSE Head(tokens).conf + SumConf(Tail(tokens))

\* round(sum / n, 1) in tenths, halves to even
RoundTenths(sum, n) ==
    LET q == (10 * sum) \div n
        r == (10 * sum) % n
    IN  IF 2 * r > n \/ (2 * r = n /\ q % 2 = 1) THEN q + 1 ELSE q

\* a token filter that keeps a token of confidence 30
KeepFrom30(tokens) ==
    SelectSeq(tokens, LAMBDA t : t.conf >= 30 /\ Strip(t.text) # <<>>)

\* the tokens process_image keeps
KeptTokens(tokens) ==
    SelectSeq(tokens, LAMBDA t : t.conf > MinTokenConfidence /\ Strip(t.text) # <<>>)

\* a process_image without its except branch: the error leaves the function
ImageErrorEscapes(open_raises, ocr) ==
    IF open_raises \/ ocr.raises THEN Raised
    ELSE Outcome(<<>>, "ocr_image", EmptyDict, <<>>)

\* ocr is the outcome of image_to_data: it raises, or it gives tokens [text, conf];
\* avg_confidence is kept in tenths of a percent; the image's own metadata
\* (format, mode, size, dpi) is left out
process_image(open_raises, ocr) ==
    IF open_raises \/ ocr.raises THEN ErrorOutcome("Image processing error")
    ELSE LET kept == KeptTokens(ocr.tokens)
             text_parts == [i \in 1..Len(kept) |-> Strip(kept[i].text)]
             full_text == Join(text_parts, <<" ">>)
             n == Len(kept)
             avg_confidence == IF n = 0 THEN 0 ELSE RoundTenths(SumConf(kept), n)
             low == n = 0 \/ SumConf(kept) < LowConfidence * n
             issues ==
                 (IF low THEN <<Issue("Low OCR confidence - image quality may be poor", 0)>>
                  ELSE <<>>)
                 \o (IF Len(full_text) < ShortText
                     THEN <<Issue("Very little text detected - document may be blank or illegible", 0)>>
                     ELSE <<>>)
         IN  Outcome(full_text, "ocr_image",
                     Put(Put(EmptyDict, "avg_confidence", avg_confidence),
                         "total_words", n),
                     issues)

\* confidence is counted in units of 1/2000: 0.5 is 1000, 0.1 is 200, 0.05 is 100
BaseConfidence == 1000

ConfidenceStep == 200

IssuePenalty == 100

MinConfidence == 200

MaxConfidence == 2000

TextLengthLow == 100

TextLengthHigh == 500

FieldsLow == 2

FieldsHigh == 5

Clamp(c) ==
    IF c < MinConfidence THEN MinConfidence
    ELSE IF c > MaxConfidence THEN MaxConfidence ELSE c

NoClamp(c) == c

\* max(0.1, min(1.0, confidence))
ClampConfidence(c) == Clamp(c)

\* a score that leaves the OCR confidence out
UnblendedConfidence(ed, pd) == ClampConfidence(BaseConfidence - Len(ed.issues) * IssuePenalty)

\* a score whose bonuses are earned at the thresholds already
InclusiveThresholds(ed, pd) ==
    LET c0 == IF Has(ed.metadata, "avg_confidence")
              THEN (BaseConfidence + 2 * ed.metadata["avg_confidence"]) \div 2
              ELSE BaseConfidence
        c1 == c0 + (IF Len(ed.text) >= TextLengthLow THEN ConfidenceStep ELSE 0)
                 + (IF Len(ed.text) >= TextLengthHigh THEN ConfidenceStep ELSE 0)
        c2 == c1 + (IF Cardinality(DOMAIN pd) >= FieldsLow THEN ConfidenceStep ELSE 0)
                 + (IF Cardinality(DOMAIN pd) >= FieldsHigh THEN ConfidenceStep ELSE 0)
    IN  ClampConfidence(c2 - Len(ed.issues) * IssuePenalty)

\* calculate_confidence up to the clamp, in units of 1/2000
ConfidenceValue(ed, pd) ==
    LET c0 == IF Has(ed.metadata, "avg_confidence")
              THEN (BaseConfidence + 2 * ed.metadata["avg_confidence"]) \div 2
              ELSE BaseConfidence
        text_length == Len(ed.text)
        c1 == c0 + (IF text_length > TextLengthLow THEN ConfidenceStep ELSE 0)
                 + (IF text_length > TextLengthHigh THEN ConfidenceStep ELSE 0)
        parsed_fields == Cardinality(DOMAIN pd)
        c2 == c1 + (IF parsed_fields > FieldsLow THEN ConfidenceStep ELSE 0)
                 + (IF parsed_fields > FieldsHigh THEN ConfidenceStep ELSE 0)
        issues_count == Len(ed.issues)
    IN  ClampConfidence(c2 - issues_count * IssuePenalty)

\* round(confidence, 3) in thousandths: a value halfway between two thousandths
\* goes to either, as the binary floating-point value decides
Round3(c) == IF c % 2 = 0 THEN {c \div 2} ELSE {c \div 2, c \div 2 + 1}

\* the values calculate_confidence can return, in thousandths
calculate_confidence(ed, pd) ==
    Round3(ConfidenceValue(ed, pd))

(***************************************************************************)
(* process_document, one step per stage                                    *)
(***************************************************************************)
MaxPages == 2

MaxClock == 2

FileSizes == {max_file_size, max_file_size + 1}

Filenames ==
    {<<"a", ".", "p", "d", "f">>,
     <<"P", "D", "F">>,
     <<"c", ".", "p", "n", "g">>,
     <<"e", ".", "e", "x", "e">>}

DocTypes == {W.invoice, <<"r", "e", "c", "e", "i", "p", "t">>}

\* what page.extract_text() gives for a page of a PDF
DigitalPages ==
    <<[raises |-> TRUE, text |-> <<>>],
      [raises |-> FALSE, text |-> <<" ", "\n">>],
      [raises |-> FALSE,
       text |-> <<"S", "u", "b", "t", "o", "t", "a", "l", ":", " ", "$", "1", ",", "0", "0", "0", ".", "0", "0", "\n", "T", "o", "t", "a", "l", ":", " ", "$", "1", ",", "2", "0", "0", ".", "5">>],
      [raises |-> FALSE,
       text |-> <<"T", "o", "t", "a", "l", ":", " ", "$", "1", ",", "2", "0", "0", ".", "5", "0", "\n", "S", "u", "b", "t", "o", "t", "a", "l", ":", " ", "$", "1", ",", "0", "0", "0", ".", "0", "0">>],
      [raises |-> FALSE,
       text |-> <<"I", "n", "v", "o", "i", "c", "e", " ", "N", "o", ":", " ", "I", "N", "V", "-", "7", "\n", "D", "a", "t", "e", ":", " ", "0", "1", "/", "0", "2", "/", "2", "0", "2", "4", "\n", "T", "o", "t", "a", "l", ":", " ", "$", "5">>]>>

\* what pytesseract.image_to_string gives for a rendered page
PageOcrOutcomes ==
    {[raises |-> TRUE, text |-> <<>>],
     [raises |-> FALSE, text |-> <<" ", "\n">>],
     [raises |-> FALSE, text |-> <<"T", "o", "t", "a", "l", ":", " ", "$", "1", ",", "2", "0", "0", ".", "5", "0">>],
     [raises |-> FALSE, text |-> <<"I", "n", "v", "o", "i", "c", "e", " ", "N", "o", ":", " ", "I", "N", "V", "-", "7">>]}

\* what pytesseract.image_to_data gives for an image
OcrDataOutcomes ==
    {[raises |-> TRUE, tokens |-> <<>>],
     [raises |-> FALSE, tokens |-> <<>>],
     [raises |-> FALSE,
      tokens |-> <<[text |-> <<>>, conf |-> -1], [text |-> <<" ">>, conf |-> 95],
                   [text |-> <<"T", "o", "t", "a", "l", ":">>, conf |-> 30], [text |-> <<"$", "5">>, conf |-> 29]>>],
     [raises |-> FALSE,
      tokens |-> <<[text |-> <<"T", "o", "t", "a", "l", ":">>, conf |-> 31], [text |-> <<" ", "$", "1", ",", "2", "0", "0", ".", "5", "0">>, conf |-> 96]>>],
     [raises |-> FALSE,
      tokens |-> <<[text |-> <<"I", "n", "v", "o", "i", "c", "e">>, conf |-> 90],
            [text |-> <<"N", "o", ":">>, conf |-> 91],
            [text |-> <<"I", "N", "V", "-", "7">>, conf |-> 92],
            [text |-> <<"T", "o", "t", "a", "l", ":">>, conf |-> 90],
            [text |-> <<"$", "1", ",", "2", "0", "0", ".", "5", "0">>, conf |-> 91],
            [text |-> <<"S", "u", "b", "t", "o", "t", "a", "l", ":">>, conf |-> 92],
            [text |-> <<"$", "1", ",", "0", "0", "0", ".", "0", "0">>, conf |-> 90],
            [text |-> <<"D", "u", "e">>, conf |-> 91],
            [text |-> <<"D", "a", "t", "e", ":">>, conf |-> 92],
            [text |-> <<"5", "-", "6", "-", "2", "4">>, conf |-> 90]>>]}

\* the bytes of a file: the MIME type its signature gives and, for a PDF, its
\* pages and whether PdfReader can read it (a corrupt PDF of n pages gives no text)
Contents ==
    {[mime |-> W.application_pdf, pages |-> ps, readable |-> TRUE] :
         ps \in SeqsUpTo(1..Len(DigitalPages), MaxPages)}
    \cup {[mime |-> W.application_pdf, pages |-> [i \in 1..n |-> 1], readable |-> FALSE] :
              n \in 0..MaxPages}
    \cup {[mime |-> m, pages |-> <<>>, readable |-> FALSE] :
              m \in {W.image_png, W.text_plain}}

IsPdf(c) == c.mime = W.application_pdf

IsImage(c) == Contains(W.image, c.mime)

PagesOf(c) == [i \in 1..Len(c.pages) |-> DigitalPages[c.pages[i]]]

\* a library reading bytes of the wrong kind raises; on the right kind it may
\* still raise (a corrupt file)
MayRaise(right_kind) == IF right_kind THEN BOOLEAN ELSE {TRUE}

NoOutcome == Outcome(<<>>, "", EmptyDict, <<>>)

NoAcc == [all_text |-> <<>>, issues |-> <<>>]

\* magic.from_buffer was not called
NoProbe == [raises |-> TRUE, mime |-> <<>>]

\* image_to_data was not called
NoOcrData == [raises |-> TRUE, tokens |-> <<>>]

NoResult == [success |-> FALSE, error |-> "", extracted_data |-> EmptyDict,
             confidence |-> 0]

Idle ==
    /\ file_size = 0
    /\ filename = <<>>
    /\ document_type = <<>>
    /\ content = [mime |-> <<>>, pages |-> <<>>, readable |-> FALSE]
    /\ validation_result = [is_valid |-> FALSE, error |-> ""]
    /\ file_type = <<>>
    /\ text_data = [text |-> <<>>, metadata |-> EmptyDict]
    /\ images = 0
    /\ page_num = 0
    /\ acc = NoAcc
    /\ extracted_data = NoOutcome
    /\ parsed_data = EmptyDict
    /\ result = NoResult
    /\ calls = {}
    /\ ocr_log = <<>>
    /\ v_mime_type = NoProbe
    /\ d_mime_type = NoProbe
    /\ ocr_data = NoOcrData

ParseOff ==
    /\ p_lines = <<>>
    /\ p_type = <<>>
    /\ p_text = <<>>
    /\ p_parsed = EmptyDict
    /\ p_pc = "off"

\* extract_document_data at rest
\* structured_data: a dict of field values, or a JSON value that is no dict
Structured(fields) == [is_dict |-> TRUE, fields |-> fields]

NotADict == [is_dict |-> FALSE, fields |-> EmptyDict]

NoRequest ==
    [document_type |-> <<>>, content_type |-> <<>>, pages |-> <<>>,
     confidence_threshold |-> 0, manual_review_required |-> FALSE]

NoOverall == [sum |-> 0, n |-> 1, below |-> FALSE]

NoResponse ==
    [status |-> 0, raw_text |-> <<>>, structured_data |-> EmptyDict,
     confidence_score |-> NoOverall, page_count |-> 0, field_confidences |-> EmptyDict,
     validation_errors |-> <<>>, requires_manual_review |-> FALSE]

OcrLocals ==
    /\ o_images = 0
    /\ o_raw_text = <<>>
    /\ o_structured = NotADict
    /\ o_validation_errors = <<>>
    /\ o_response = NoResponse
    /\ o_calls = {}

OcrOff == o_pc = "off" /\ o_request = NoRequest /\ OcrLocals

\* a PIL image: its mode, its size, and the operations applied to it, in order
Image(mode, width, height) ==
    [mode |-> mode, width |-> width, height |-> height, applied |-> <<>>]

NoImage == Image("", 0, 0)

EnhanceOff ==
    /\ e_pc = "off"
    /\ e_image = NoImage
    /\ e_fails = "none"
    /\ e_result = NoImage

\* the callers of the shared DocumentProcessor
Callers == {1, 2}

NoCall ==
    [size |-> 0, name |-> <<>>, dtype |-> <<>>,
     content |-> [mime |-> <<>>, pages |-> <<>>, readable |-> FALSE],
     v_raises |-> FALSE, d_raises |-> FALSE, open_raises |-> FALSE,
     ocr |-> NoOcrData, convert_raises |-> FALSE, page_ocr |-> <<>>,
     half_up |-> FALSE]

NoLocals ==
    [validation_result |-> [is_valid |-> FALSE, error |-> ""], file_type |-> <<>>,
     extracted_data |-> NoOutcome, parsed_data |-> EmptyDict]

PairOff ==
    /\ t_self = DocumentProcessor
    /\ t_pc = [i \in Callers |-> "off"]
    /\ t_call = [i \in Callers |-> NoCall]
    /\ t_local = [i \in Callers |-> NoLocals]
    /\ t_result = [i \in Callers |-> NoResult]

\* no call of the hash functions: nothing absorbed, nothing returned
NoHash == [kind |-> "none", digest |-> <<>>, equal |-> FALSE]

HashOff ==
    /\ h_pc = "off"
    /\ h_sha = <<>>
    /\ h_hasher = <<>>
    /\ h_file_data = <<>>
    /\ h_expected_hash = <<>>
    /\ h_returned = NoHash

ScoreOff ==
    /\ s_pc = "off"
    /\ s_extracted_data = NoOutcome
    /\ s_parsed_data = EmptyDict
    /\ s_confidence = 0

NoBulkResponse == [status |-> 0]

BulkOff ==
    /\ b_pc = "off"
    /\ b_files = <<>>
    /\ b_type = <<>>
    /\ b_index = 0
    /\ b_results = <<>>
    /\ b_failed_files = <<>>
    /\ b_response = NoBulkResponse

AuxOff == PairOff /\ HashOff /\ ScoreOff /\ BulkOff

Init == pc = "idle" /\ Idle /\ ParseOff /\ OcrOff /\ EnhanceOff /\ AuxOff

\* the result of a rejected validation
ValidationFailure(v) ==
    [success |-> FALSE, error |-> v.error, extracted_data |-> EmptyDict,
     confidence |-> 0]

\* the result of the except branch of process_document
ProcessingFailure ==
    [success |-> FALSE, error |-> "Document processing failed",
     extracted_data |-> EmptyDict, confidence |-> 0]

\* the result process_document returns at the end of its try block
SuccessResult(ed, pd, ftype, dtype, confidence, now) ==
    [success |-> TRUE,
     extracted_data |->
         [raw_text |-> ed.text,
          parsed_fields |-> pd,
          metadata |-> ed.metadata,
          processing_info |->
              [file_type |-> ftype, document_type |-> dtype,
               processing_method |-> ed.method]],
     confidence |-> confidence,
     issues |-> ed.issues,
     processed_at |-> now]

\* a caller calls process_document(file_data, filename, document_type)
ProcessDocument ==
    /\ pc = "idle"
    /\ \E s \in FileSizes, f \in Filenames, d \in DocTypes, c \in Contents :
           /\ file_size' = s
           /\ filename' = f
           /\ document_type' = d
           /\ content' = c
    /\ pc' = "validate"
    /\ UNCHANGED <<validation_result, file_type, text_data, images, page_num, acc,
                   extracted_data, parsed_data, result, calls, ocr_log>>
    /\ UNCHANGED <<v_mime_type, d_mime_type, ocr_data>>
    /\ UNCHANGED <<parse_vars, ocr_vars, enh_vars, aux_vars>>

ValidateDocument ==
    /\ pc = "validate"
    /\ \E raises \in BOOLEAN :
           LET probe == [raises |-> raises,
                         mime |-> IF raises THEN <<>> ELSE content.mime]
               v == validate_document(file_size, filename, probe)
           IN  /\ validation_result' = v
               /\ v_mime_type' = IF ProbeReached(file_size, filename) THEN probe
                                 ELSE NoProbe
               /\ IF v.is_valid
                  THEN pc' = "detect" /\ UNCHANGED result
                  ELSE pc' = "done" /\ result' = ValidationFailure(v)
    /\ calls' = calls \cup {"validate_document"}
    /\ UNCHANGED <<file_size, filename, document_type, content, file_type, text_data,
                   images, page_num, acc, extracted_data, parsed_data, ocr_log>>
    /\ UNCHANGED <<d_mime_type, ocr_data>>
    /\ UNCHANGED <<parse_vars, ocr_vars, enh_vars, aux_vars>>

DetectFileType ==
    /\ pc = "detect"
    /\ \E raises \in BOOLEAN :
           LET probe == [raises |-> raises,
                         mime |-> IF raises THEN <<>> ELSE content.mime]
           IN  /\ file_type' = detect_file_type(filename, probe)
               /\ d_mime_type' = probe
    /\ pc' = IF file_type' = W.pdf THEN "process_pdf" ELSE "process_image"
    /\ calls' = calls \cup {"detect_file_type"}
    /\ UNCHANGED <<file_size, filename, document_type, content, validation_result,
                   text_data, images, page_num, acc, extracted_data, parsed_data,
                   result, ocr_log>>
    /\ UNCHANGED <<v_mime_type, ocr_data>>
    /\ UNCHANGED <<parse_vars, ocr_vars, enh_vars, aux_vars>>

\* process_pdf up to its branch: digital text is accepted, or the PDF goes to OCR
ProcessPdf ==
    /\ pc = "process_pdf"
    /\ text_data' = extract_text_from_pdf(~content.readable, PagesOf(content))
    /\ IF DigitalAccepted(text_data')
       THEN pc' = "parse" /\ extracted_data' = DigitalOutcome(text_data')
       ELSE pc' = "convert" /\ UNCHANGED extracted_data
    /\ calls' = calls \cup {"process_pdf", "extract_text_from_pdf"}
    /\ UNCHANGED <<file_size, filename, document_type, content, validation_result,
                   file_type, images, page_num, acc, parsed_data, result, ocr_log>>
    /\ UNCHANGED <<v_mime_type, d_mime_type, ocr_data>>
    /\ UNCHANGED <<parse_vars, ocr_vars, enh_vars, aux_vars>>

\* process_scanned_pdf: convert_from_bytes renders the pages, or raises
ConvertFromBytes ==
    /\ pc = "convert"
    /\ \E raises \in MayRaise(IsPdf(content)) :
           IF raises
           THEN /\ extracted_data' = ErrorOutcome("Scanned PDF processing error")
                /\ pc' = "parse"
                /\ UNCHANGED <<images, page_num, acc>>
           ELSE /\ images' = Len(content.pages)
                /\ page_num' = 0
                /\ acc' = NoAcc
                /\ pc' = "ocr"
                /\ UNCHANGED extracted_data
    /\ calls' = calls \cup {"process_scanned_pdf", "convert_from_bytes"}
    /\ UNCHANGED <<file_size, filename, document_type, content, validation_result,
                   file_type, text_data, parsed_data, result, ocr_log>>
    /\ UNCHANGED <<v_mime_type, d_mime_type, ocr_data>>
    /\ UNCHANGED <<parse_vars, ocr_vars, enh_vars, aux_vars>>

\* process_scanned_pdf: one iteration of the page loop
OcrPage ==
    /\ pc = "ocr"
    /\ page_num < images
    /\ \E ocr \in PageOcrOutcomes :
           /\ acc' = ScannedPage(acc, page_num, ocr)
           /\ ocr_log' = Append(ocr_log, ocr)
    /\ page_num' = page_num + 1
    /\ calls' = calls \cup {"enhance_image_for_ocr", "image_to_string"}
    /\ UNCHANGED <<pc, file_size, filename, document_type, content, validation_result,
                   file_type, text_data, images, extracted_data, parsed_data, result>>
    /\ UNCHANGED <<v_mime_type, d_mime_type, ocr_data>>
    /\ UNCHANGED <<parse_vars, ocr_vars, enh_vars, aux_vars>>

\* process_scanned_pdf: the return after the page loop
ReturnScannedPdf ==
    /\ pc = "ocr"
    /\ page_num = images
    /\ extracted_data' = ScannedOutcome(acc, images)
    /\ pc' = "parse"
    /\ UNCHANGED <<file_size, filename, document_type, content, validation_result,
                   file_type, text_data, images, page_num, acc, parsed_data, result,
                   calls, ocr_log>>
    /\ UNCHANGED <<v_mime_type, d_mime_type, ocr_data>>
    /\ UNCHANGED <<parse_vars, ocr_vars, enh_vars, aux_vars>>

\* process_image, and the except branch of process_document behind it
ProcessImage ==
    /\ pc = "process_image"
    /\ \E open_raises \in MayRaise(IsImage(content)), ocr \in OcrDataOutcomes :
           LET out == process_image(open_raises, ocr)
           IN  /\ IF out.raised
                  THEN pc' = "done" /\ result' = ProcessingFailure
                           /\ UNCHANGED extracted_data
                  ELSE pc' = "parse" /\ extracted_data' = out /\ UNCHANGED result
               /\ ocr_data' = IF open_raises THEN NoOcrData ELSE ocr
               /\ calls' = calls \cup {"process_image", "Image.open"}
                      \cup (IF open_raises THEN {}
                            ELSE {"enhance_image_for_ocr", "image_to_data"})
    /\ UNCHANGED <<file_size, filename, document_type, content, validation_result,
                   file_type, text_data, images, page_num, acc, parsed_data, ocr_log>>
    /\ UNCHANGED <<v_mime_type, d_mime_type>>
    /\ UNCHANGED <<parse_vars, ocr_vars, enh_vars, aux_vars>>

ParseDocumentContent ==
    /\ pc = "parse"
    /\ parsed_data' = parse_document_content(extracted_data.text, document_type)
    /\ pc' = "score"
    /\ calls' = calls \cup {"parse_document_content"}
    /\ UNCHANGED <<file_size, filename, document_type, content, validation_result,
                   file_type, text_data, images, page_num, acc, extracted_data, result,
                   ocr_log>>
    /\ UNCHANGED <<v_mime_type, d_mime_type, ocr_data>>
    /\ UNCHANGED <<parse_vars, ocr_vars, enh_vars, aux_vars>>

\* calculate_confidence and the return of process_document
CalculateConfidence ==
    /\ pc = "score"
    /\ \E confidence \in calculate_confidence(extracted_data, parsed_data),
          now \in 1..MaxClock :
           result' = SuccessResult(extracted_data, parsed_data, file_type,
                                   document_type, confidence, now)
    /\ pc' = "done"
    /\ calls' = calls \cup {"calculate_confidence"}
    /\ UNCHANGED <<file_size, filename, document_type, content, validation_result,
                   file_type, text_data, images, page_num, acc, extracted_data,
                   parsed_data, ocr_log>>
    /\ UNCHANGED <<v_mime_type, d_mime_type, ocr_data>>
    /\ UNCHANGED <<parse_vars, ocr_vars, enh_vars, aux_vars>>

\* the caller has the result; the processor keeps nothing of the call
Return ==
    /\ pc = "done"
    /\ pc' = "idle"
    /\ file_size' = 0
    /\ filename' = <<>>
    /\ document_type' = <<>>
    /\ content' = [mime |-> <<>>, pages |-> <<>>, readable |-> FALSE]
    /\ validation_result' = [is_valid |-> FALSE, error |-> ""]
    /\ file_type' = <<>>
    /\ text_data' = [text |-> <<>>, metadata |-> EmptyDict]
    /\ images' = 0
    /\ page_num' = 0
    /\ acc' = NoAcc
    /\ extracted_data' = NoOutcome
    /\ parsed_data' = EmptyDict
    /\ result' = NoResult
    /\ calls' = {}
    /\ ocr_log' = <<>>
    /\ v_mime_type' = NoProbe
    /\ d_mime_type' = NoProbe
    /\ ocr_data' = NoOcrData
    /\ UNCHANGED <<parse_vars, ocr_vars, enh_vars, aux_vars>>

Next ==
    \/ ProcessDocument
    \/ ValidateDocument
    \/ DetectFileType
    \/ ProcessPdf
    \/ ConvertFromBytes
    \/ OcrPage
    \/ ReturnScannedPdf
    \/ ProcessImage
    \/ ParseDocumentContent
    \/ CalculateConfidence
    \/ Return

Spec == Init /\ [][Next]_vars

(***************************************************************************)
(* Two callers of process_document on one DocumentProcessor                *)
(***************************************************************************)
\* a call: the arguments, and what the libraries and engines answer to it
\* (the probes of magic, Image.open, image_to_data, convert_from_bytes,
\* image_to_string per rendered page, the direction of a halfway rounding)
PairDocuments ==
    LET png == [mime |-> W.image_png, pages |-> <<>>, readable |-> FALSE]
        scan == [mime |-> W.application_pdf, pages |-> <<3>>, readable |-> TRUE]
        long == CHOOSE o \in OcrDataOutcomes : Len(o.tokens) > 4
        short == CHOOSE o \in OcrDataOutcomes :
                     Len(o.tokens) = 2 /\ o.tokens[1].conf = 31
        page == CHOOSE o \in PageOcrOutcomes : Len(o.text) = 17
    IN  {[size |-> s, name |-> <<"c", ".", "p", "n", "g">>, dtype |-> W.invoice,
          content |-> png, v_raises |-> FALSE, d_raises |-> FALSE,
          open_raises |-> FALSE, ocr |-> o, convert_raises |-> FALSE,
          page_ocr |-> <<>>, half_up |-> h] :
             s \in FileSizes, o \in {long, short}, h \in BOOLEAN}
        \cup {[size |-> s, name |-> <<"a", ".", "p", "d", "f">>, dtype |-> W.invoice,
               content |-> scan, v_raises |-> r, d_raises |-> FALSE,
               open_raises |-> FALSE, ocr |-> NoOcrData, convert_raises |-> FALSE,
               page_ocr |-> <<page>>, half_up |-> FALSE] :
                  s \in FileSizes, r \in BOOLEAN}

\* what magic.from_buffer gives on the content of a call
ProbeOf(raises, c) == [raises |-> raises, mime |-> IF raises THEN <<>> ELSE c.mime]

\* an attribute holding the largest file size seen so far
SelfKeepsLargest(self, size) ==
    [self EXCEPT !.max_file_size = IF size > @ THEN size ELSE @]

\* the attributes of the instance after a call's validate_document: no
\* statement of process_document or of a method it calls assigns to self
SelfAfter(self, size) == self

PairProcessDocument(i) ==
    /\ t_pc[i] = "idle"
    /\ \E d \in PairDocuments : t_call' = [t_call EXCEPT ![i] = d]
    /\ t_pc' = [t_pc EXCEPT ![i] = "validate"]
    /\ UNCHANGED <<t_self, t_local, t_result>>
    /\ UNCHANGED <<doc_vars, parse_vars, ocr_vars, enh_vars, hash_vars, score_vars, bulk_vars>>

PairValidate(i) ==
    /\ t_pc[i] = "validate"
    /\ LET c == t_call[i]
           v == validate_document_self(t_self, c.size, c.name,
                                       ProbeOf(c.v_raises, c.content))
       IN  /\ t_local' = [t_local EXCEPT ![i].validation_result = v]
           /\ t_self' = SelfAfter(t_self, c.size)
           /\ IF v.is_valid
              THEN /\ t_pc' = [t_pc EXCEPT ![i] = "detect"]
                   /\ UNCHANGED t_result
              ELSE /\ t_pc' = [t_pc EXCEPT ![i] = "done"]
                   /\ t_result' = [t_result EXCEPT ![i] = ValidationFailure(v)]
    /\ UNCHANGED t_call
    /\ UNCHANGED <<doc_vars, parse_vars, ocr_vars, enh_vars, hash_vars, score_vars, bulk_vars>>

PairDetect(i) ==
    /\ t_pc[i] = "detect"
    /\ LET c == t_call[i]
       IN  t_local' = [t_local EXCEPT ![i].file_type =
                          detect_file_type(c.name, ProbeOf(c.d_raises, c.content))]
    /\ t_pc' = [t_pc EXCEPT ![i] = "extract"]
    /\ UNCHANGED <<t_self, t_call, t_result>>
    /\ UNCHANGED <<doc_vars, parse_vars, ocr_vars, enh_vars, hash_vars, score_vars, bulk_vars>>

\* process_pdf or process_image, and the except branch of process_document
PairExtract(i) ==
    /\ t_pc[i] = "extract"
    /\ LET c == t_call[i]
           out == IF t_local[i].file_type = W.pdf
                  THEN process_pdf(~c.content.readable, PagesOf(c.content),
                                   c.convert_raises, c.page_ocr)
                  ELSE process_image(c.open_raises, c.ocr)
       IN  IF out.raised
           THEN /\ t_pc' = [t_pc EXCEPT ![i] = "done"]
                /\ t_result' = [t_result EXCEPT ![i] = ProcessingFailure]
                /\ UNCHANGED t_local
           ELSE /\ t_pc' = [t_pc EXCEPT ![i] = "parse"]
                /\ t_local' = [t_local EXCEPT ![i].extracted_data = out]
                /\ UNCHANGED t_result
    /\ UNCHANGED <<t_self, t_call>>
    /\ UNCHANGED <<doc_vars, parse_vars, ocr_vars, enh_vars, hash_vars, score_vars, bulk_vars>>

PairParse(i) ==
    /\ t_pc[i] = "parse"
    /\ t_local' = [t_local EXCEPT ![i].parsed_data =
                       parse_document_content(t_local[i].extracted_data.text,
                                              t_call[i].dtype)]
    /\ t_pc' = [t_pc EXCEPT ![i] = "score"]
    /\ UNCHANGED <<t_self, t_call, t_result>>
    /\ UNCHANGED <<doc_vars, parse_vars, ocr_vars, enh_vars, hash_vars, score_vars, bulk_vars>>

\* calculate_confidence and the return of process_document; a halfway value
\* is rounded as the call's half_up says
PairScore(i) ==
    /\ t_pc[i] = "score"
    /\ LET l == t_local[i]
           values == calculate_confidence(l.extracted_data, l.parsed_data)
           confidence == IF t_call[i].half_up
                         THEN CHOOSE c \in values : \A d \in values : d <= c
                         ELSE CHOOSE c \in values : \A d \in values : c <= d
       IN  \E now \in 1..MaxClock :
               t_result' = [t_result EXCEPT ![i] =
                               SuccessResult(l.extracted_data, l.parsed_data,
                                             l.file_type, t_call[i].dtype,
                                             confidence, now)]
    /\ t_pc' = [t_pc EXCEPT ![i] = "done"]
    /\ UNCHANGED <<t_self, t_call, t_local>>
    /\ UNCHANGED <<doc_vars, parse_vars, ocr_vars, enh_vars, hash_vars, score_vars, bulk_vars>>

\* the caller has the result
PairReturn(i) ==
    /\ t_pc[i] = "done"
    /\ t_pc' = [t_pc EXCEPT ![i] = "idle"]
    /\ t_call' = [t_call EXCEPT ![i] = NoCall]
    /\ t_local' = [t_local EXCEPT ![i] = NoLocals]
    /\ t_result' = [t_result EXCEPT ![i] = NoResult]
    /\ UNCHANGED t_self
    /\ UNCHANGED <<doc_vars, parse_vars, ocr_vars, enh_vars, hash_vars, score_vars, bulk_vars>>

InitPair ==
    /\ pc = "off"
    /\ Idle
    /\ ParseOff
    /\ OcrOff
    /\ EnhanceOff
    /\ HashOff
    /\ ScoreOff
    /\ BulkOff
    /\ t_self = DocumentProcessor
    /\ t_pc = [i \in Callers |-> "idle"]
    /\ t_call = [i \in Callers |-> NoCall]
    /\ t_local = [i \in Callers |-> NoLocals]
    /\ t_result = [i \in Callers |-> NoResult]

NextPair ==
    \E i \in Callers :
        \/ PairProcessDocument(i)
        \/ PairValidate(i)
        \/ PairDetect(i)
        \/ PairExtract(i)
        \/ PairParse(i)
        \/ PairScore(i)
        \/ PairReturn(i)

SpecPair == InitPair /\ [][NextPair]_vars

(***************************************************************************)
(* calculate_confidence as a pure function                                 *)
(***************************************************************************)
MaxIssues == 4

\* avg_confidence in tenths of a percent; -1: the metadata has no such key
AvgConfidences == {-1, 0, 635, 700, 1000}

TextLengths == {0, TextLengthLow, TextLengthLow + 1, TextLengthHigh, TextLengthHigh + 1}

FieldCounts == {0, FieldsLow, FieldsLow + 1, FieldsHigh, FieldsHigh + 1}

\* an extraction outcome with the given avg_confidence, text length and issues
ScoredOutcome(avg, length, issues) ==
    Outcome([i \in 1..length |-> "x"], "ocr_image",
            IF avg < 0 THEN EmptyDict ELSE Put(EmptyDict, "avg_confidence", avg),
            [i \in 1..issues |-> Issue("issue", 0)])

\* a field map of n fields
ScoredFields(n) == [k \in {Str(i) : i \in 1..n} |-> "value"]

InitScore ==
    /\ pc = "off"
    /\ Idle
    /\ ParseOff
    /\ OcrOff
    /\ EnhanceOff
    /\ PairOff
    /\ HashOff
    /\ BulkOff
    /\ s_pc = "input"
    /\ \E avg \in AvgConfidences, length \in TextLengths, issues \in 0..MaxIssues :
           s_extracted_data = ScoredOutcome(avg, length, issues)
    /\ \E n \in FieldCounts : s_parsed_data = ScoredFields(n)
    /\ s_confidence = 0

ScoreDocument ==
    /\ s_pc = "input"
    /\ s_confidence' \in calculate_confidence(s_extracted_data, s_parsed_data)
    /\ s_pc' = "returned"
    /\ UNCHANGED <<s_extracted_data, s_parsed_data>>
    /\ UNCHANGED <<doc_vars, parse_vars, ocr_vars, enh_vars, pair_vars, hash_vars, bulk_vars>>

NextScore == ScoreDocument

SpecScore == InitScore /\ [][NextScore]_vars

(***************************************************************************)
(* generate_document_hash and verify_document_integrity                    *)
(***************************************************************************)
MaxBytes == 2

\* the byte buffers: up to MaxBytes bytes "A"
Buffers == SeqsUpTo({65}, MaxBytes)

\* digests as hexdigest() gives them, lower-case hexadecimal text (shortened
\* from 64 characters to 2)
Digests == {<<"a", "3">>, <<"0", "f">>, <<"7", "c">>}

\* SHA-256 is any function from byte strings to digests, injective or not
Sha256Functions == [Buffers -> Digests]

\* the expected hashes a caller passes: digests, one in upper case, no text
ExpectedHashes == Digests \cup {<<"A", "3">>, <<>>}

\* a hash object that is kept and fed again for every call
SharedHasher(previous, data) ==
    IF Len(previous \o data) <= MaxBytes THEN previous \o data ELSE data

\* hashlib.sha256(file_data): a new hash object that has absorbed file_data;
\* previous is what the hash object created before has absorbed
hashlib_sha256(previous, data) == data

\* hexdigest() of a hash object
hexdigest(sha, hasher) == sha[hasher]

\* actual_hash == expected_hash
HashesEqual(actual_hash, expected_hash) == actual_hash = expected_hash

GenerateDocumentHash ==
    /\ h_pc = "ready"
    /\ \E file_data \in Buffers :
           LET hasher == hashlib_sha256(h_hasher, file_data)
           IN  /\ h_file_data' = file_data
               /\ h_hasher' = hasher
               /\ h_returned' = [kind |-> "hash", digest |-> hexdigest(h_sha, hasher),
                                 equal |-> FALSE]
    /\ h_expected_hash' = <<>>
    /\ UNCHANGED <<h_pc, h_sha>>
    /\ UNCHANGED <<doc_vars, parse_vars, ocr_vars, enh_vars, pair_vars, score_vars, bulk_vars>>

\* verify_document_integrity, with its call of generate_document_hash
VerifyDocumentIntegrity ==
    /\ h_pc = "ready"
    /\ \E file_data \in Buffers, expected_hash \in ExpectedHashes :
           LET hasher == hashlib_sha256(h_hasher, file_data)
               actual_hash == hexdigest(h_sha, hasher)
           IN  /\ h_file_data' = file_data
               /\ h_expected_hash' = expected_hash
               /\ h_hasher' = hasher
               /\ h_returned' = [kind |-> "verify", digest |-> actual_hash,
                                 equal |-> HashesEqual(actual_hash, expected_hash)]
    /\ UNCHANGED <<h_pc, h_sha>>
    /\ UNCHANGED <<doc_vars, parse_vars, ocr_vars, enh_vars, pair_vars, score_vars, bulk_vars>>

InitHash ==
    /\ pc = "off"
    /\ Idle
    /\ ParseOff
    /\ OcrOff
    /\ EnhanceOff
    /\ PairOff
    /\ ScoreOff
    /\ BulkOff
    /\ h_pc = "ready"
    /\ h_sha \in Sha256Functions
    /\ h_hasher = <<>>
    /\ h_file_data = <<>>
    /\ h_expected_hash = <<>>
    /\ h_returned = NoHash

NextHash ==
    \/ GenerateDocumentHash
    \/ VerifyDocumentIntegrity

SpecHash == InitHash /\ [][NextHash]_vars

(***************************************************************************)
(* Parsing as a pure function: the texts are lines joined by newlines      *)
(***************************************************************************)
ParseLines ==
    <<<<"T", "o", "t", "a", "l", ":", " ", "$", "1", ",", "2", "0", "0", ".", "5", "0">>,
      <<"S", "u", "b", "t", "o", "t", "a", "l", ":", " ", "$", "1", ",", "0", "0", "0", ".", "0", "0">>,
      <<"A", "m", "o", "u", "n", "t", " ", "D", "u", "e", ":", " ", "1", ",", "5", "0", "0">>,
      <<"B", "A", "L", "A", "N", "C", "E", " ", "2", "0", "0", "0", ".", "7", "5">>,
      <<"p", "a", "i", "d", " ", "$", "3", ",", "0", "0", "0", ".", "5">>,
      <<"T", "o", "t", "a", "l", ":", " ", ",">>,
      <<"Q", "t", "y", " ", "5", "0", "0", "0", " ", "p", "c", "s">>,
      <<"I", "n", "v", "o", "i", "c", "e", " ", "N", "o", ":", " ", "I", "N", "V", "-", "7">>,
      <<"I", "n", "v", "o", "i", "c", "e", " ", "D", "a", "t", "e", ":", " ", "0", "3", "/", "0", "4", "/", "2", "0", "2", "4">>,
      <<"D", "a", "t", "e", ":", " ", "0", "1", "/", "0", "2", "/", "2", "0", "2", "4">>,
      <<"D", "u", "e", " ", "D", "a", "t", "e", ":", " ", "5", "-", "6", "-", "2", "4">>,
      <<"B", "i", "l", "l", " ", "T", "o", ":", " ", "A", "c", "m", "e", " ", "&", " ", "C", "o", ".">>,
      <<"V", "a", "l", "u", "e", ":", " ", ",">>,
      <<"C", "o", "n", "s", "i", "d", "e", "r", "a", "t", "i", "o", "n", ":", " ", "9", "0">>,
      <<"a", "@", "b", ".", "c", "o", " ", "5", "5", "5", "-", "1", "2", "3", "-", "4", "5", "6", "7">>>>

MaxLines == 2

TextOf(lines) == Join([i \in 1..Len(lines) |-> ParseLines[lines[i]]], <<"\n">>)

\* declared document types: the four known ones, a mixed-case one, an unknown one
ParseDocTypes ==
    {W.invoice, W.contract, W.identity, W.bank_statement, <<"I", "n", "v", "o", "i", "c", "e">>,
     <<"r", "e", "c", "e", "i", "p", "t">>}

InitParse ==
    /\ pc = "off"
    /\ Idle
    /\ p_lines \in SeqsUpTo(1..Len(ParseLines), MaxLines)
    /\ p_type \in ParseDocTypes
    /\ p_text = TextOf(p_lines)
    /\ p_parsed = EmptyDict
    /\ p_pc = "input"
    /\ OcrOff
    /\ EnhanceOff
    /\ AuxOff

ParseText ==
    /\ p_pc = "input"
    /\ p_parsed' = parse_document_content(p_text, p_type)
    /\ p_pc' = "parsed"
    /\ UNCHANGED <<p_lines, p_type, p_text>>
    /\ UNCHANGED <<doc_vars, ocr_vars, enh_vars, aux_vars>>

NextParse == ParseText

SpecParse == InitParse /\ [][NextParse]_vars

(***************************************************************************)
(* enhance_image_for_ocr as a pure function                                *)
(***************************************************************************)
\* width < 1000 or height < 1000
MinDimension == 1000

\* the statements of the try block that change the image, in order
EnhanceSteps == <<"convert", "contrast", "sharpness", "median_filter", "resize">>

\* the statement runs on this image: the conversion is skipped for a grayscale
\* image and the resize for an image that is large enough
StepRuns(image, step) ==
    CASE step = "convert" -> image.mode # "L"
      [] step = "resize" -> image.width < MinDimension \/ image.height < MinDimension
      [] OTHER -> TRUE

\* max(1000 / width, 1000 / height)
ScaleFactor(image) ==
    IF image.width < image.height THEN [num |-> MinDimension, den |-> image.width]
    ELSE [num |-> MinDimension, den |-> image.height]

\* the image a statement assigns to the local variable image; the resize is
\* computed for sizes on which the floating-point scale factor is exact
ApplyStep(image, step) ==
    LET done == [image EXCEPT !.applied = Append(@, step)]
    IN  CASE step = "convert" -> [done EXCEPT !.mode = "L"]
          [] step = "resize" ->
                 LET f == ScaleFactor(image)
                 IN  [done EXCEPT !.width = (image.width * f.num) \div f.den,
                                  !.height = (image.height * f.num) \div f.den]
          [] OTHER -> done

\* the try block from statement k on; the except branch returns the local
\* variable image as it is when the statement raises
RECURSIVE EnhanceFrom(_, _, _)
EnhanceFrom(image, k, fails) ==
    IF k > Len(EnhanceSteps) THEN image
    ELSE IF ~StepRuns(image, EnhanceSteps[k]) THEN EnhanceFrom(image, k + 1, fails)
    ELSE IF fails = EnhanceSteps[k] THEN image
    ELSE EnhanceFrom(ApplyStep(image, EnhanceSteps[k]), k + 1, fails)

enhance_image_for_ocr(image, fails) == EnhanceFrom(image, 1, fails)

ImageModes == {"L", "RGB"}

ImageSides == {250, 500, MinDimension, 2000}

InitEnhance ==
    /\ pc = "off"
    /\ Idle
    /\ ParseOff
    /\ OcrOff
    /\ AuxOff
    /\ e_pc = "input"
    /\ e_image \in {Image(m, w, h) : m \in ImageModes, w \in ImageSides, h \in ImageSides}
    /\ e_fails \in {"none"} \cup Range(EnhanceSteps)
    /\ e_result = NoImage

EnhanceImageForOcr ==
    /\ e_pc = "input"
    /\ e_result' = enhance_image_for_ocr(e_image, e_fails)
    /\ e_pc' = "returned"
    /\ UNCHANGED <<e_image, e_fails>>
    /\ UNCHANGED <<doc_vars, parse_vars, ocr_vars, aux_vars>>

NextEnhance == EnhanceImageForOcr

SpecEnhance == InitEnhance /\ [][NextEnhance]_vars

(***************************************************************************)
(* OCR endpoint: extract_document_data and the functions it calls          *)
(***************************************************************************)
\* the literal words of extract_with_patterns, the image/ prefix and a
\* document type outside DOCUMENT_SCHEMAS
OW ==
    [invoice_no |-> <<"i", "n", "v", "o", "i", "c", "e", " ", "n", "o">>,
     invoice_hash |-> <<"i", "n", "v", "o", "i", "c", "e", " ", "#">>,
     amount_due |-> <<"a", "m", "o", "u", "n", "t", " ", "d", "u", "e">>,
     grand_total |-> <<"g", "r", "a", "n", "d", " ", "t", "o", "t", "a", "l">>,
     invoice_date |-> <<"i", "n", "v", "o", "i", "c", "e", " ", "d", "a", "t", "e">>,
     due_date |-> <<"d", "u", "e", " ", "d", "a", "t", "e">>,
     payment_due |-> <<"p", "a", "y", "m", "e", "n", "t", " ", "d", "u", "e">>,
     contract_no |-> <<"c", "o", "n", "t", "r", "a", "c", "t", " ", "n", "o">>,
     agreement_no |-> <<"a", "g", "r", "e", "e", "m", "e", "n", "t", " ", "n", "o">>,
     contract_value |-> <<"c", "o", "n", "t", "r", "a", "c", "t", " ", "v", "a", "l", "u", "e">>,
     total_value |-> <<"t", "o", "t", "a", "l", " ", "v", "a", "l", "u", "e">>,
     contract_date |-> <<"c", "o", "n", "t", "r", "a", "c", "t", " ", "d", "a", "t", "e">>,
     agreement_date |-> <<"a", "g", "r", "e", "e", "m", "e", "n", "t", " ", "d", "a", "t", "e">>,
     image_slash |-> <<"i", "m", "a", "g", "e", "/">>,
     receipt |-> <<"r", "e", "c", "e", "i", "p", "t">>]

\* the keys of DOCUMENT_SCHEMAS
DOCUMENT_SCHEMAS == {W.invoice, W.contract, W.identity, W.bank_statement}

\* required_fields and optional_fields of DOCUMENT_SCHEMAS[document_type]
schema_fields(dtype) ==
    CASE dtype = W.invoice ->
             {"invoice_number", "invoice_date", "due_date", "total_amount",
              "supplier_name", "supplier_address", "buyer_name", "buyer_address",
              "tax_amount", "discount", "payment_terms", "currency", "line_items",
              "subtotal", "tax_rate", "po_number"}
      [] dtype = W.contract ->
             {"contract_number", "contract_date", "parties", "contract_value",
              "start_date", "end_date", "scope_of_work", "payment_terms", "penalties",
              "termination_clause", "governing_law", "signatures", "witness"}
      [] dtype = W.identity ->
             {"full_name", "document_number", "date_of_birth", "issue_date",
              "expiry_date", "nationality", "address", "place_of_birth",
              "issuing_authority", "gender", "height", "photo"}
      [] dtype = W.bank_statement ->
             {"account_number", "account_holder", "statement_period",
              "opening_balance", "closing_balance", "bank_name", "transactions",
              "total_credits", "total_debits", "average_balance", "statement_date",
              "branch_code"}
      [] OTHER -> {}

\* a JSON value: null, a string, or a number with the text str() gives for it
NoneValue == [kind |-> "none", s |-> <<>>]

StrValue(s) == [kind |-> "str", s |-> s]

NumValue(s) == [kind |-> "num", s |-> s]

\* ([A-Z0-9-]+) under re.IGNORECASE
CodeGroup == Group(1, Plus(Letters \cup Digits \cup {"-"}))

\* \$?(\d+\.?\d*)
PlainAmount == Opt({"$"}) \o Group(1, Plus(Digits) \o Opt({"."}) \o Star(Digits))

\* (\d{1,2}[/-]\d{1,2}[/-]\d{4})
FullDateGroup ==
    Group(1, Rep(Digits, 1, 2) \o One({"/", "-"}) \o Rep(Digits, 1, 2)
                 \o One({"/", "-"}) \o Rep(Digits, 4, 4))

\* patterns[document_type] of extract_with_patterns
fallback_patterns(dtype) ==
    CASE dtype = W.invoice ->
             [invoice_number |->
                  Alt(<<Lit(W.invoice), Lit(OW.invoice_no), Lit(OW.invoice_hash)>>)
                      \o Sep \o CodeGroup,
              total_amount |->
                  Alt(<<Lit(W.total), Lit(OW.amount_due), Lit(OW.grand_total)>>)
                      \o Sep \o PlainAmount,
              invoice_date |->
                  Alt(<<Lit(OW.invoice_date), Lit(W.date)>>) \o Sep \o FullDateGroup,
              due_date |->
                  Alt(<<Lit(OW.due_date), Lit(OW.payment_due)>>) \o Sep \o FullDateGroup]
      [] dtype = W.contract ->
             [contract_number |->
                  Alt(<<Lit(W.contract), Lit(OW.contract_no), Lit(OW.agreement_no)>>)
                      \o Sep \o CodeGroup,
              contract_value |->
                  Alt(<<Lit(OW.contract_value), Lit(OW.total_value), Lit(W.amount)>>)
                      \o Sep \o PlainAmount,
              contract_date |->
                  Alt(<<Lit(OW.contract_date), Lit(OW.agreement_date), Lit(W.date)>>)
                      \o Sep \o FullDateGroup]
      [] OTHER -> EmptyDict

\* every field of the document type's patterns is set: the group, or None
extract_with_patterns(text, dtype) ==
    LET pats == fallback_patterns(dtype)
    IN  [field \in DOMAIN pats |->
             LET m == Search(pats[field], text, 1)
             IN  IF m.ok THEN StrValue(GroupText(text, m, 1)) ELSE NoneValue]

\* gemini is what the model call gives: it raises (also: no image to send), its
\* text is no JSON, or its text is the JSON value gemini.data
extract_with_gemini(gemini, raw_text, dtype) ==
    IF gemini.kind = "json" THEN gemini.data
    ELSE Structured(extract_with_patterns(raw_text, dtype))

\* field confidences are counted in tenths: 0.9 is 9, 0.5 is 5
HighConfidence == 9

MediumConfidence == 5

\* field confidences that leave out the fields without a value
ConfidencesOfPresentFields(structured_data, raw_text) ==
    [field \in {f \in DOMAIN structured_data : structured_data[f].kind # "none"} |->
         IF Contains(structured_data[field].s, raw_text) THEN HighConfidence
         ELSE MediumConfidence]

calculate_field_confidences(structured_data, raw_text) ==
    [field \in DOMAIN structured_data |->
         LET value == structured_data[field]
         IN  IF value.kind = "none" THEN 0
             ELSE IF value.kind = "str" /\ Strip(value.s) = <<>> THEN 0
             ELSE IF Contains(value.s, raw_text) THEN HighConfidence
             ELSE MediumConfidence]

\* sum(field_confidences.values())
RECURSIVE SumValues(_, _)
SumValues(d, keys) ==
    IF keys = {} THEN 0
    ELSE LET k == CHOOSE x \in keys : TRUE
         IN  d[k] + SumValues(d, keys \ {k})

\* 0.9 has no exact binary representation: a sum of several terms that has it,
\* divided by their number, can come out just below the exact mean
MayRoundBelow(field_confidences) ==
    IF Cardinality(DOMAIN field_confidences) > 1
           /\ \E k \in DOMAIN field_confidences : field_confidences[k] = HighConfidence
    THEN BOOLEAN
    ELSE {FALSE}

\* sum(...) / len(field_confidences) if field_confidences else 0, as the exact
\* mean sum / (10 * n) and whether the float fell just below it
overall_confidence(field_confidences, below) ==
    IF DOMAIN field_confidences = {} THEN [sum |-> 0, n |-> 1, below |-> FALSE]
    ELSE [sum |-> SumValues(field_confidences, DOMAIN field_confidences),
          n |-> Cardinality(DOMAIN field_confidences),
          below |-> below]

\* overall_confidence < confidence_threshold, the threshold in thousandths
BelowThreshold(overall, confidence_threshold) ==
    \/ overall.sum * 100 < confidence_threshold * overall.n
    \/ overall.sum * 100 = confidence_threshold * overall.n /\ overall.below

ReviewWithoutRequest(manual_review_required, overall, confidence_threshold, validation_errors) ==
    BelowThreshold(overall, confidence_threshold) \/ Len(validation_errors) > 0

ReviewWithoutErrors(manual_review_required, overall, confidence_threshold, validation_errors) ==
    manual_review_required \/ BelowThreshold(overall, confidence_threshold)

requires_manual_review(manual_review_required, overall, confidence_threshold, validation_errors) ==
    \/ manual_review_required
    \/ BelowThreshold(overall, confidence_threshold)
    \/ Len(validation_errors) > 0

\* startswith
StartsWith(s, prefix) == Len(s) >= Len(prefix) /\ SubSeq(s, 1, Len(prefix)) = prefix

\* confidence_threshold: float = Form(0.7), in thousandths
DefaultThreshold == 700

MaxOcrPages == 2

Thresholds == {0, DefaultThreshold, 800, 900}

OcrDocTypes == {W.invoice, W.contract, W.identity, OW.receipt}

ContentTypes == {W.image_png, W.application_pdf, W.text_plain}

\* what pytesseract.image_to_string gives for a page of the upload
OcrPageTexts ==
    <<<<>>,
      <<"I", "n", "v", "o", "i", "c", "e", " ", "N", "o", ":", " ", "I", "N", "V", "-", "7", "\n", "T", "o", "t", "a", "l", ":", " ", "$", "1", "2", "0", "0", ".", "5", "0", "\n", "D", "a", "t", "e", ":", " ", "0", "3", "/", "0", "4", "/", "2", "0", "2", "4">>>>

\* the uploads: an image is one page, a PDF has up to MaxOcrPages pages
Uploads(content_type) ==
    IF StartsWith(content_type, OW.image_slash)
    THEN {<<t>> : t \in 1..Len(OcrPageTexts)}
    ELSE IF content_type = W.application_pdf
    THEN SeqsUpTo(1..Len(OcrPageTexts), MaxOcrPages)
    ELSE {<<>>}

\* what the Gemini call gives; generate_content is called without a timeout,
\* so a service that does not respond leaves the call waiting
GeminiOutcomes ==
    {[kind |-> "no_response", data |-> NotADict],
     [kind |-> "raises", data |-> NotADict],
     [kind |-> "not_json", data |-> NotADict],
     [kind |-> "json", data |-> NotADict],
     [kind |-> "json", data |-> Structured(EmptyDict)],
     [kind |-> "json", data |-> Structured([invoice_number |-> StrValue(<<"I", "N", "V", "-", "7">>)])],
     [kind |-> "json",
      data |-> Structured([invoice_number |-> StrValue(<<"I", "N", "V", "-", "7">>),
                           confidence |-> NumValue(<<"0", ".", "9">>)])],
     [kind |-> "json",
      data |-> Structured([invoice_number |-> StrValue(<<"I", "N", "V", "-", "7">>),
                           total_amount |-> NumValue(<<"1", "2", "0", "0", ".", "5">>),
                           invoice_date |-> NoneValue,
                           supplier_name |-> StrValue(<<" ", " ">>),
                           customer_name |-> StrValue(<<"A", "c", "m", "e">>)])],
     [kind |-> "json",
      data |-> Structured([invoice_number |-> StrValue(<<"I", "N", "V", "-", "7">>),
                           total_amount |-> NumValue(<<"1", "2", "0", "0", ".", "5">>),
                           invoice_date |-> StrValue(<<"0", "3", "/", "0", "4", "/", "2", "0", "2", "4">>),
                           supplier_name |-> StrValue(<<"A", "c", "m", "e">>)])]}

\* what validation_service.validate_document_data gives: it raises, or a list
ValidationOutcomes ==
    {[raises |-> TRUE, errors |-> <<>>],
     [raises |-> FALSE, errors |-> <<>>],
     [raises |-> FALSE, errors |-> <<"Missing required field: supplier_name">>]}

\* the except branch of extract_document_data: HTTP 500, no OCRResult
HttpError == [NoResponse EXCEPT !.status = 500]

\* the OCRResult extract_document_data returns (HTTP 200); processing_time,
\* detected_language, tables and signatures are left out
OCRResult(raw_text, structured_data, overall, page_count, field_confidences, validation_errors, review) ==
    [status |-> 200, raw_text |-> raw_text, structured_data |-> structured_data,
     confidence_score |-> overall, page_count |-> page_count,
     field_confidences |-> field_confidences,
     validation_errors |-> validation_errors, requires_manual_review |-> review]

\* raw_text += text + "\n" for every page
RECURSIVE RawText(_)
RawText(pages) ==
    IF pages = <<>> THEN <<>>
    ELSE OcrPageTexts[Head(pages)] \o <<"\n">> \o RawText(Tail(pages))

\* a client posts a document
ExtractDocumentData ==
    /\ o_pc = "idle"
    /\ \E d \in OcrDocTypes, c \in ContentTypes, t \in Thresholds, m \in BOOLEAN :
           \E u \in Uploads(c) :
               o_request' = [document_type |-> d, content_type |-> c, pages |-> u,
                             confidence_threshold |-> t, manual_review_required |-> m]
    /\ o_pc' = "read"
    /\ UNCHANGED <<o_images, o_raw_text, o_structured, o_validation_errors, o_response,
                   o_calls>>
    /\ UNCHANGED <<doc_vars, parse_vars, enh_vars, aux_vars>>

\* the checks of the request, the rendering and the Tesseract pass; an
\* HTTPException raised here is caught by the handler's own except branch;
\* image_to_string is called without a timeout, so a Tesseract process that
\* does not end leaves the handler waiting in the call
RecogniseText ==
    /\ o_pc = "read"
    /\ \E raises \in BOOLEAN, no_response \in BOOLEAN :
           IF \/ o_request.document_type \notin DOCUMENT_SCHEMAS
              \/ ~(StartsWith(o_request.content_type, OW.image_slash)
                       \/ o_request.content_type = W.application_pdf)
              \/ raises
           THEN /\ o_response' = HttpError
                /\ o_pc' = "done"
                /\ UNCHANGED <<o_images, o_raw_text, o_calls>>
           ELSE IF no_response /\ Len(o_request.pages) > 0
           THEN /\ o_images' = Len(o_request.pages)
                /\ o_calls' = o_calls \cup {"preprocess", "image_to_string"}
                /\ o_pc' = "waiting"
                /\ UNCHANGED <<o_raw_text, o_response>>
           ELSE /\ o_images' = Len(o_request.pages)
                /\ o_raw_text' = RawText(o_request.pages)
                /\ o_calls' = o_calls \cup {"preprocess", "image_to_string"}
                /\ o_pc' = "gemini"
                /\ UNCHANGED o_response
    /\ UNCHANGED <<o_request, o_structured, o_validation_errors>>
    /\ UNCHANGED <<doc_vars, parse_vars, enh_vars, aux_vars>>

ExtractWithGemini ==
    /\ o_pc = "gemini"
    /\ \E gemini \in GeminiOutcomes :
           /\ gemini.kind = "raises" \/ o_images > 0
           /\ IF gemini.kind = "no_response"
              THEN /\ o_calls' = o_calls \cup {"extract_with_gemini"}
                   /\ o_pc' = "waiting"
                   /\ UNCHANGED o_structured
              ELSE /\ o_structured' = extract_with_gemini(gemini, o_raw_text,
                                                          o_request.document_type)
                   /\ o_calls' = o_calls \cup {"extract_with_gemini"}
                          \cup (IF gemini.kind = "json" THEN {}
                                ELSE {"extract_with_patterns"})
                   /\ o_pc' = "validate"
    /\ UNCHANGED <<o_request, o_images, o_raw_text, o_validation_errors, o_response>>
    /\ UNCHANGED <<doc_vars, parse_vars, enh_vars, aux_vars>>

ValidateDocumentData ==
    /\ o_pc = "validate"
    /\ \E v \in ValidationOutcomes :
           IF v.raises
           THEN /\ o_response' = HttpError
                /\ o_pc' = "done"
                /\ UNCHANGED o_validation_errors
           ELSE /\ o_validation_errors' = v.errors
                /\ o_pc' = "respond"
                /\ UNCHANGED o_response
    /\ o_calls' = o_calls \cup {"validate_document_data"}
    /\ UNCHANGED <<o_request, o_images, o_raw_text, o_structured>>
    /\ UNCHANGED <<doc_vars, parse_vars, enh_vars, aux_vars>>

\* the field confidences, the overall confidence, the manual-review decision
\* and the response; structured_data.items() raises on a value that is no dict
Respond ==
    /\ o_pc = "respond"
    /\ IF ~o_structured.is_dict
       THEN o_response' = HttpError
       ELSE LET field_confidences ==
                    calculate_field_confidences(o_structured.fields, o_raw_text)
            IN  \E below \in MayRoundBelow(field_confidences) :
                    LET overall == overall_confidence(field_confidences, below)
                    IN  o_response' =
                            OCRResult(o_raw_text, o_structured.fields, overall, o_images,
                                      field_confidences, o_validation_errors,
                                      requires_manual_review(
                                          o_request.manual_review_required, overall,
                                          o_request.confidence_threshold,
                                          o_validation_errors))
    /\ o_calls' = o_calls \cup {"calculate_field_confidences"}
    /\ o_pc' = "done"
    /\ UNCHANGED <<o_request, o_images, o_raw_text, o_structured, o_validation_errors>>
    /\ UNCHANGED <<doc_vars, parse_vars, enh_vars, aux_vars>>

\* the client has the response; the service keeps nothing of the request
OcrReturn ==
    /\ o_pc = "done"
    /\ o_pc' = "idle"
    /\ o_request' = NoRequest
    /\ o_images' = 0
    /\ o_raw_text' = <<>>
    /\ o_structured' = NotADict
    /\ o_validation_errors' = <<>>
    /\ o_response' = NoResponse
    /\ o_calls' = {}
    /\ UNCHANGED <<doc_vars, parse_vars, enh_vars, aux_vars>>

InitOcr ==
    /\ pc = "off"
    /\ Idle
    /\ ParseOff
    /\ o_pc = "idle"
    /\ o_request = NoRequest
    /\ OcrLocals
    /\ EnhanceOff
    /\ AuxOff

NextOcr ==
    \/ ExtractDocumentData
    \/ RecogniseText
    \/ ExtractWithGemini
    \/ ValidateDocumentData
    \/ Respond
    \/ OcrReturn

SpecOcr == InitOcr /\ [][NextOcr]_vars

\* the positions of the handler; at "waiting" it is inside a call to Tesseract
\* or to Gemini that does not return
OcrPositions == {"idle", "read", "gemini", "validate", "respond", "done", "waiting"}

\* a step of the handler from a position where it is not waiting in a call
HandlerRuns == o_pc # "waiting" /\ o_pc' \in OcrPositions /\ o_pc' # o_pc

\* the handler is sequential code: it takes its next step unless a call keeps
\* it waiting (every step of NextOcr changes o_pc, and NextOcr has a step at
\* every position but "waiting")
SpecOcrLive == SpecOcr /\ WF_o_pc(HandlerRuns)

(***************************************************************************)
(* OCR service: bulk_extract_documents                                     *)
(***************************************************************************)
\* settings.max_bulk_ocr_count: the settings module of the OCR service is not
\* among the sources, the model takes a small limit
max_bulk_ocr_count == 2

\* required_fields of DOCUMENT_SCHEMAS[document_type]
required_fields(dtype) ==
    CASE dtype = W.invoice ->
             {"invoice_number", "invoice_date", "due_date", "total_amount",
              "supplier_name", "supplier_address", "buyer_name", "buyer_address"}
      [] dtype = W.contract ->
             {"contract_number", "contract_date", "parties", "contract_value",
              "start_date", "end_date", "scope_of_work"}
      [] dtype = W.identity ->
             {"full_name", "document_number", "date_of_birth", "issue_date",
              "expiry_date", "nationality"}
      [] dtype = W.bank_statement ->
             {"account_number", "account_holder", "statement_period",
              "opening_balance", "closing_balance", "bank_name"}

\* an upload: whether file.read() raises, its content type, whether
\* Image.open or convert_from_bytes reads the bytes, and for each image what
\* pytesseract.image_to_string gives
BulkUploads ==
    {[read_raises |-> FALSE, content_type |-> W.image_png, opens |-> TRUE,
      pages |-> <<[raises |-> FALSE,
                   text |-> <<"I", "n", "v", "o", "i", "c", "e", " ", "N", "o", ":", " ", "I", "N", "V", "-", "7">>]>>],
     [read_raises |-> FALSE, content_type |-> W.application_pdf, opens |-> TRUE,
      pages |-> <<[raises |-> FALSE, text |-> <<"T", "o", "t", "a", "l", ":", " ", "5">>],
                  [raises |-> FALSE, text |-> <<" ">>]>>],
     [read_raises |-> TRUE, content_type |-> W.image_png, opens |-> TRUE, pages |-> <<>>],
     [read_raises |-> FALSE, content_type |-> W.image_png, opens |-> FALSE, pages |-> <<>>],
     [read_raises |-> FALSE, content_type |-> W.application_pdf, opens |-> TRUE,
      pages |-> <<[raises |-> FALSE, text |-> <<"T", "o", "t", "a", "l", ":", " ", "5">>],
                  [raises |-> TRUE, text |-> <<>>]>>],
     [read_raises |-> FALSE, content_type |-> W.text_plain, opens |-> TRUE, pages |-> <<>>]}

BulkDocTypes == {W.invoice, OW.receipt}

\* the file name of the upload at position i of a batch
UploadName(i) == <<"f">> \o Str(i)

\* the batches: uploads with a file name each
Batches ==
    {[i \in 1..Len(us) |->
          [filename |-> UploadName(i), read_raises |-> us[i].read_raises,
           content_type |-> us[i].content_type, opens |-> us[i].opens,
           pages |-> us[i].pages]] :
         us \in SeqsUpTo(BulkUploads, max_bulk_ocr_count + 1)}

\* raw_text += text + "\n" for every image
RECURSIVE BulkRawText(_)
BulkRawText(pages) ==
    IF pages = <<>> THEN <<>>
    ELSE pages[1].text \o <<"\n">> \o BulkRawText(Tail(pages))

\* an exception with the text str(e) gives
FileRaised(error) == [raised |-> TRUE, error |-> error]

process_single_file(file, dtype) ==
    IF ~(StartsWith(file.content_type, OW.image_slash)
             \/ file.content_type = W.application_pdf)
    THEN FileRaised("Unsupported file type")
    ELSE IF ~file.opens \/ \E i \in 1..Len(file.pages) : file.pages[i].raises
    THEN FileRaised("library error")
    ELSE LET raw_text == BulkRawText(file.pages)
             structured_data == extract_with_patterns(raw_text, dtype)
             field_count == Cardinality({f \in DOMAIN structured_data :
                                             structured_data[f].kind # "none"})
         IN  IF dtype \notin DOCUMENT_SCHEMAS THEN FileRaised("KeyError")
             ELSE LET total_fields == Cardinality(required_fields(dtype))
                  IN  [raised |-> FALSE,
                       result |->
                           [raw_text |-> raw_text,
                            structured_data |-> structured_data,
                            confidence_score |->
                                IF total_fields > 0
                                THEN [num |-> field_count, den |-> total_fields]
                                ELSE [num |-> 0, den |-> 1],
                            page_count |-> Len(file.pages)]]

\* the first failure ends the loop
AfterFailureStops(index, count) == count + 1

\* the except branch of the loop body falls through to the next file
AfterFailure(index, count) == index + 1

InitBulk ==
    /\ pc = "off"
    /\ Idle
    /\ ParseOff
    /\ OcrOff
    /\ EnhanceOff
    /\ PairOff
    /\ HashOff
    /\ ScoreOff
    /\ b_pc = "request"
    /\ b_files \in Batches
    /\ b_type \in BulkDocTypes
    /\ b_index = 0
    /\ b_results = <<>>
    /\ b_failed_files = <<>>
    /\ b_response = NoBulkResponse

\* the length check: the HTTPException it raises is caught by the handler's
\* own except Exception and comes out as a 500
BulkCheckCount ==
    /\ b_pc = "request"
    /\ IF Len(b_files) > max_bulk_ocr_count
       THEN /\ b_response' = [status |-> 500]
            /\ b_pc' = "returned"
            /\ UNCHANGED b_index
       ELSE /\ b_index' = 1
            /\ b_pc' = "loop"
            /\ UNCHANGED b_response
    /\ UNCHANGED <<b_files, b_type, b_results, b_failed_files>>
    /\ UNCHANGED <<doc_vars, parse_vars, ocr_vars, enh_vars, pair_vars, hash_vars, score_vars>>

\* one iteration of the loop over files
BulkProcessFile ==
    /\ b_pc = "loop"
    /\ b_index <= Len(b_files)
    /\ LET file == b_files[b_index]
           outcome == IF file.read_raises THEN FileRaised("read error")
                      ELSE process_single_file(file, b_type)
       IN  IF outcome.raised
           THEN /\ b_failed_files' = Append(b_failed_files,
                                            [filename |-> file.filename, error |-> outcome.error,
                                             status |-> "failed"])
                /\ b_index' = AfterFailure(b_index, Len(b_files))
                /\ UNCHANGED b_results
           ELSE /\ b_results' = Append(b_results,
                                       [filename |-> file.filename,
                                        result |-> outcome.result, status |-> "success"])
                /\ b_index' = b_index + 1
                /\ UNCHANGED b_failed_files
    /\ UNCHANGED <<b_pc, b_files, b_type, b_response>>
    /\ UNCHANGED <<doc_vars, parse_vars, ocr_vars, enh_vars, pair_vars, hash_vars, score_vars>>

BulkReturn ==
    /\ b_pc = "loop"
    /\ b_index > Len(b_files)
    /\ b_response' = [status |-> 200,
                      processed_files |-> b_results,
                      failed_files |-> b_failed_files,
                      total_processed |-> Len(b_files),
                      success_count |-> Len(b_results),
                      failure_count |-> Len(b_failed_files)]
    /\ b_pc' = "returned"
    /\ UNCHANGED <<b_files, b_type, b_index, b_results, b_failed_files>>
    /\ UNCHANGED <<doc_vars, parse_vars, ocr_vars, enh_vars, pair_vars, hash_vars, score_vars>>

NextBulk == BulkCheckCount \/ BulkProcessFile \/ BulkReturn

SpecBulk == InitBulk /\ [][NextBulk]_vars

(***************************************************************************)
(* Properties of process_document (specification Spec)                     *)
(***************************************************************************)
\* the calls that render a PDF's pages or run the OCR engine
RenderingAndOcr ==
    {"process_scanned_pdf", "convert_from_bytes", "enhance_image_for_ocr",
     "image_to_string", "image_to_data"}

Oversized == file_size > max_file_size

DisallowedSuffix == Lower(SplitLast(filename, ".")) \notin Range(supported_formats)

\* C1: once validation has run on an input that is over max_file_size, or whose
\* filename suffix is outside supported_formats, process_document is at its
\* return with success = false, validate_document is the only call it has made
\* (no format detection, process_pdf, process_image, OCR or parsing), and the
\* result carries no extraction issue and no extraction data.
C1_RejectedBeforeExtraction ==
    (pc \notin {"idle", "validate"} /\ (Oversized \/ DisallowedSuffix))
        => /\ pc = "done"
           /\ result.success = FALSE
           /\ calls = {"validate_document"}
           /\ "issues" \notin DOMAIN result
           /\ result.extracted_data = EmptyDict
           /\ extracted_data = NoOutcome
           /\ acc = NoAcc

C1_Witness ==
    /\ pc = "done"
    /\ Oversized
    /\ ~DisallowedSuffix
    /\ result.success = FALSE
    /\ calls = {"validate_document"}

\* C2: the confidence of every result process_document returns lies in
\* [0.1, 1.0], that is between 100 and 1000 thousandths, the results for
\* inputs that fail validation included.
C2_ConfidenceInRange ==
    pc = "done" => result.confidence \in 100..1000

\* C3: process_document ends in a result, and the result has success = false
\* only when validate_document rejected the input: after a passed validation
\* the result has success = true, also when the extraction ended in an error
\* outcome.
C3_FailureOnlyFromValidation ==
    pc = "done"
        => /\ result # NoResult
           /\ result.success <=> validation_result.is_valid
           /\ extracted_data.method = "error" => result.success

C3_Witness ==
    /\ pc = "done"
    /\ validation_result.is_valid
    /\ result.success
    /\ result.extracted_data.processing_info.processing_method = "error"
    /\ result.extracted_data.raw_text = <<>>

\* the characters page.extract_text() gives over all pages of a PDF
RECURSIVE EmbeddedLength(_)
EmbeddedLength(pages) ==
    IF pages = <<>> THEN 0
    ELSE (IF Head(pages).raises THEN 0 ELSE Len(Head(pages).text))
             + EmbeddedLength(Tail(pages))

SegmentsInPageOrder(log) ==
    LET gave_text(i) == ~log[i].raises /\ Strip(log[i].text) # <<>>
        kept == SelectSeq([i \in 1..Len(log) |-> i], gave_text)
    IN  [k \in 1..Len(kept) |-> PageSegment(kept[k], log[kept[k]].text)]

\* C7: when process_scanned_pdf returns after a rendering that succeeded, the
\* method of its outcome is ocr_pdf and its text is the texts of the pages in
\* increasing page number, joined by blank lines.
C7_ScannedPagesInOrder ==
    [][(pc = "ocr" /\ pc' = "parse")
           => /\ extracted_data'.method = "ocr_pdf"
              /\ extracted_data'.text
                     = Join(SegmentsInPageOrder(ocr_log), <<"\n", "\n">>)]_vars

C7_Witness ==
    /\ pc = "parse"
    /\ extracted_data.method = "ocr_pdf"
    /\ Len(ocr_log) = 2
    /\ Len(SegmentsInPageOrder(ocr_log)) = 2
    /\ ocr_log[1].text # ocr_log[2].text
    /\ extracted_data.text = Join(SegmentsInPageOrder(ocr_log), <<"\n", "\n">>)

\* a raster image declared as invoice, read without an error, on which OCR
\* recovered text of length 0
EmptyInvoiceImage ==
    /\ pc = "done"
    /\ "process_image" \in calls
    /\ IsImage(content)
    /\ document_type = W.invoice
    /\ result.success
    /\ result.extracted_data.processing_info.processing_method = "ocr_image"
    /\ result.extracted_data.raw_text = <<>>

\* C8 as stated: for a raster image declared as invoice on which OCR recovers
\* text of length 0, the result has no issue and no parsed field and its
\* confidence is the base score 0.5 (500 thousandths).
C8_EmptyImageBaseScore ==
    EmptyInvoiceImage
        => /\ result.issues = <<>>
           /\ result.extracted_data.parsed_fields = EmptyDict
           /\ result.confidence = 500

\* C8, amended: for a raster image declared as invoice on which OCR recovers
\* text of length 0, the result has the two issues of process_image (low OCR
\* confidence, very little text), an average OCR confidence of 0, no parsed
\* field, and the confidence (0.5 + 0) / 2 - 2 * 0.05 = 0.15 (150 thousandths).
C8_EmptyImageScore ==
    EmptyInvoiceImage
        => /\ Len(result.issues) = 2
           /\ result.extracted_data.metadata["avg_confidence"] = 0
           /\ result.extracted_data.parsed_fields = EmptyDict
           /\ result.confidence = 150

C8_Witness ==
    /\ EmptyInvoiceImage
    /\ Len(result.issues) = 2
    /\ result.confidence = 150

\* C10: every extraction outcome of method error has empty text and at least
\* one issue, in the outcome process_pdf, process_scanned_pdf or process_image
\* hands back and in the result built from it.
C10_ErrorOutcomeShape ==
    /\ extracted_data.method = "error"
           => extracted_data.text = <<>> /\ Len(extracted_data.issues) >= 1
    /\ (pc = "done" /\ result.success
            /\ result.extracted_data.processing_info.processing_method = "error")
           => result.extracted_data.raw_text = <<>> /\ Len(result.issues) >= 1

C10_Witness ==
    /\ pc = "parse"
    /\ "process_scanned_pdf" \in calls
    /\ extracted_data.method = "error"
    /\ extracted_data.text = <<>>
    /\ Len(extracted_data.issues) = 1

\* C11: when the extraction of a validated document ended in an error outcome,
\* process_document still goes through parsing and scoring; at its return the
\* result has success = true, the empty text, an empty parsed field map, and
\* the issue of the failed extraction in issues.
C11_ExtractionErrorContinues ==
    /\ (extracted_data.method = "error" /\ pc \in {"parse", "score", "done"})
           => validation_result.is_valid
    /\ (extracted_data.method = "error" /\ pc = "done")
           => /\ {"parse_document_content", "calculate_confidence"} \subseteq calls
              /\ result.success
              /\ result.extracted_data.raw_text = <<>>
              /\ result.extracted_data.parsed_fields = EmptyDict
              /\ Len(result.issues) = 1
              /\ result.issues = extracted_data.issues

C11_Witness ==
    /\ pc = "done"
    /\ extracted_data.method = "error"
    /\ "process_image" \in calls
    /\ result.success
    /\ result.extracted_data.parsed_fields = EmptyDict
    /\ Len(result.issues) = 1

\* C13: every result process_document returns with success = true has the
\* keys extracted_data, confidence, issues, requires_manual_review and
\* processed_at.
C13_SuccessResultComplete ==
    (pc = "done" /\ result.success)
        => {"extracted_data", "confidence", "issues", "requires_manual_review",
            "processed_at"} \subseteq DOMAIN result

\* C14: after detect_file_type, when magic.from_buffer gave a MIME type, PDF
\* content is classified pdf and image content is classified as an image
\* format, whatever the filename suffix is; when magic.from_buffer raised, the
\* detected type is the suffix.
C14_ProbeOverSuffix ==
    pc \in {"process_pdf", "process_image"}
        => IF d_mime_type.raises
           THEN file_type = Lower(SplitLast(filename, "."))
           ELSE /\ Contains(W.pdf, d_mime_type.mime) => file_type = W.pdf
                /\ Contains(W.image, d_mime_type.mime) => file_type # W.pdf

\* the content is of the type the suffix of the filename stands for
SignatureMatchesSuffix ==
    \/ Lower(SplitLast(filename, ".")) = W.pdf /\ content.mime = W.application_pdf
    \/ Lower(SplitLast(filename, ".")) = W.png /\ content.mime = W.image_png

\* process_document has returned a validation failure with this reason and
\* has attempted no extraction
RejectedFor(reason) ==
    /\ pc = "done"
    /\ validation_result.is_valid = FALSE
    /\ result.success = FALSE
    /\ result.error = reason
    /\ calls = {"validate_document"}
    /\ extracted_data = NoOutcome

\* C15 as stated: after validation the first failing check among size, suffix
\* and signature gives the reason of the rejection; a document whose content
\* does not match its supported suffix is rejected.
C15_MismatchRejected ==
    pc \notin {"idle", "validate"}
        => IF Oversized THEN RejectedFor("File size exceeds maximum limit")
           ELSE IF DisallowedSuffix THEN RejectedFor("Unsupported file format")
           ELSE IF ~SignatureMatchesSuffix
           THEN RejectedFor("File content doesn't match extension")
           ELSE validation_result.is_valid

\* C15, amended: the first failing check among size, suffix and signature
\* gives the reason of the rejection, where the signature check fails only if
\* magic.from_buffer gave a MIME type and that type does not match the suffix;
\* if magic.from_buffer raised, the signature check is skipped and a document
\* of the right size and suffix is accepted whatever its content is.
C15_ValidationOrder ==
    pc \notin {"idle", "validate"}
        => IF Oversized THEN RejectedFor("File size exceeds maximum limit")
           ELSE IF DisallowedSuffix THEN RejectedFor("Unsupported file format")
           ELSE IF ~v_mime_type.raises /\ ~SignatureMatchesSuffix
           THEN RejectedFor("File content doesn't match extension")
           ELSE validation_result.is_valid /\ (pc # "done" => result = NoResult)

C15_Witness ==
    /\ ~Oversized
    /\ ~DisallowedSuffix
    /\ ~SignatureMatchesSuffix
    /\ ~v_mime_type.raises
    /\ RejectedFor("File content doesn't match extension")

\* process_image has returned an outcome read from the tokens of ocr_data
ImageRead ==
    pc \in {"parse", "score", "done"} /\ extracted_data.method = "ocr_image"

\* the tokens of ocr_data with text and a confidence of at least min, in order
TokensFrom(min) ==
    LET keeps(t) == t.conf >= min /\ \E i \in 1..Len(t.text) : t.text[i] \notin Space
    IN  SelectSeq(ocr_data.tokens, keeps)

\* the text is the given tokens, stripped and joined by single spaces, and
\* avg_confidence (in tenths) is their mean confidence rounded to one decimal,
\* 0 when there is none
ReadFrom(tokens) ==
    LET n == Len(tokens)
        sum == SumConf(tokens)
        avg == extracted_data.metadata["avg_confidence"]
    IN  /\ extracted_data.text = Join([i \in 1..n |-> Strip(tokens[i].text)], <<" ">>)
        /\ extracted_data.metadata["total_words"] = n
        /\ IF n = 0 THEN avg = 0
           ELSE 2 * (avg * n - 10 * sum) <= n /\ 2 * (10 * sum - avg * n) <= n

\* C19 as stated: the text of process_image is made of the non-empty tokens of
\* confidence 30 or more, in token order, and avg_confidence is their mean.
C19_KeepsFrom30 ==
    ImageRead => ReadFrom(TokensFrom(30))

\* C19, amended: the text of process_image is made of the non-empty tokens of
\* confidence above 30 (31 is kept, 30 is dropped), stripped, in token order,
\* and avg_confidence is their mean confidence rounded to one decimal, 0 when
\* no token is kept.
C19_KeepsAbove30 ==
    ImageRead => ReadFrom(TokensFrom(31))

C19_Witness ==
    /\ ImageRead
    /\ \E i \in 1..Len(ocr_data.tokens) : ocr_data.tokens[i].conf = 31
    /\ Len(TokensFrom(31)) = 2
    /\ extracted_data.metadata["avg_confidence"] = 635
    /\ ReadFrom(TokensFrom(31))

(***************************************************************************)
(* Properties of enhance_image_for_ocr (specification SpecEnhance)         *)
(***************************************************************************)
\* a statement of enhance_image_for_ocr raised: the one that fails is one the
\* function runs on this image (no statement before the resize changes the size)
EnhancementFailed ==
    /\ e_pc = "returned"
    /\ e_fails # "none"
    /\ e_fails = "convert" => e_image.mode # "L"
    /\ e_fails = "resize" => e_image.width < 1000 \/ e_image.height < 1000

\* C17: when a statement of enhance_image_for_ocr fails, the image returned is
\* the image passed in, with none of the earlier operations applied.
C17_ReturnsOriginalOnFailure ==
    EnhancementFailed => e_result = e_image

(***************************************************************************)
(* Properties of extract_document_data (specification SpecOcr)             *)
(***************************************************************************)
\* the overall confidence of a response is below a threshold given in thousandths
ScoreBelow(score, threshold) ==
    \/ score.sum * 100 < threshold * score.n
    \/ score.sum * 100 = threshold * score.n /\ score.below

Answered == o_pc = "done" /\ o_response.status = 200

\* C4: a request with manual_review_required = true is answered with
\* requires_manual_review = true, whatever the confidence, the threshold and
\* the validation errors are.
C4_RequestedReview ==
    (Answered /\ o_request.manual_review_required)
        => o_response.requires_manual_review

C4_Witness ==
    /\ Answered
    /\ o_request.manual_review_required
    /\ ~ScoreBelow(o_response.confidence_score, o_request.confidence_threshold)
    /\ o_response.validation_errors = <<>>
    /\ o_response.requires_manual_review

\* C5: a request without manual_review_required is answered with
\* requires_manual_review = true exactly when the overall confidence is below
\* confidence_threshold or a validation error was recorded; and the step that
\* decides it changes neither the recognised text nor the structured data nor
\* the validation errors, and calls no extraction.
C5_ReviewDecision ==
    /\ [](Answered /\ ~o_request.manual_review_required
              => (o_response.requires_manual_review
                      <=> \/ ScoreBelow(o_response.confidence_score,
                                        o_request.confidence_threshold)
                          \/ Len(o_response.validation_errors) > 0))
    /\ [][o_pc = "respond"
              => /\ UNCHANGED <<o_raw_text, o_structured, o_validation_errors, o_images>>
                 /\ o_calls' \ o_calls \subseteq {"calculate_field_confidences"}]_vars

C5_Witness ==
    /\ Answered
    /\ ~o_request.manual_review_required
    /\ o_request.confidence_threshold > 0
    /\ ~ScoreBelow(o_response.confidence_score, o_request.confidence_threshold)
    /\ o_response.validation_errors = <<>>
    /\ ~o_response.requires_manual_review

\* C12: the keys of the structured data of every answer, whether it came from
\* the patterns or from the AI extractor, are fields of the schema of the
\* request's document type.
C12_KeysInVocabulary ==
    Answered
        => DOMAIN o_response.structured_data
               \subseteq schema_fields(o_request.document_type)

\* C16: what extract_with_gemini hands back is a field map: the AI output when
\* that is one, otherwise the pattern-based extraction of the raw text; and a
\* request that got as far as the field confidences is answered, not failed.
C16_AiFallback ==
    /\ o_pc \in {"validate", "respond"}
           => /\ o_structured.is_dict
              /\ "extract_with_patterns" \in o_calls
                     => o_structured
                            = Structured(extract_with_patterns(o_raw_text,
                                                               o_request.document_type))
    /\ (o_pc = "done" /\ "calculate_field_confidences" \in o_calls)
           => o_response.status = 200

(***************************************************************************)
(* Properties of parse_invoice_content (specification SpecParse)           *)
(***************************************************************************)
\* C9: for a text declared as invoice, amount is the largest of the numbers
\* the amount patterns find in it, thousands separators removed, and absent
\* when they find none; the lines "Total: $1,200.50" and "Subtotal: $1,000.00"
\* give 1200.50 in either order.  The candidates of each line of ParseLines
\* are listed in hundredths.
C9_AmountIsLargestCandidate ==
    LET candidates == <<{120050}, {100000}, {150000}, {200075}, {300050},
                        {}, {}, {}, {}, {}, {}, {}, {}, {}, {}>>
        found == UNION {candidates[p_lines[i]] : i \in 1..Len(p_lines)}
        largest == CHOOSE c \in found : \A d \in found : d <= c
    IN  (p_pc = "parsed" /\ Lower(p_type) = W.invoice)
            => /\ Has(p_parsed, "amount") <=> found # {}
               /\ found # {} => p_parsed.amount.num * 100 = largest * p_parsed.amount.den
               /\ p_lines \in {<<1, 2>>, <<2, 1>>}
                      => p_parsed.amount.num * 100 = 120050 * p_parsed.amount.den

C9_Witness ==
    /\ p_pc = "parsed"
    /\ p_type = W.invoice
    /\ p_lines = <<2, 1>>
    /\ Has(p_parsed, "amount")
    /\ p_parsed.amount.num * 100 = 120050 * p_parsed.amount.den

\* the texts of ParseLines with a date label: "Invoice Date: 03/04/2024" (line
\* 9), "Date: 01/02/2024" (line 10) and "Due Date: 5-6-24" (line 11)
LabelledDates ==
    [n \in {9, 10, 11} |->
         CASE n = 9 -> <<"0", "3", "/", "0", "4", "/", "2", "0", "2", "4">>
           [] n = 10 -> <<"0", "1", "/", "0", "2", "/", "2", "0", "2", "4">>
           [] n = 11 -> <<"5", "-", "6", "-", "2", "4">>]

C20_ExternalCallsBounded ==
    /\ (o_pc = "read") ~> (o_pc \in {"gemini", "done"})
    /\ (o_pc = "gemini") ~> (o_pc = "validate" /\ "extract_with_gemini" \in o_calls)

(***************************************************************************)
(* Properties of two callers of one DocumentProcessor (specification       *)
(* SpecPair)                                                               *)
(***************************************************************************)
\* a result without its processed_at
Untimed(r) == IF r.success THEN [r EXCEPT !.processed_at = 0] ELSE r

\* C21: two calls of process_document with the same bytes, filename and
\* document type, answered alike by the libraries and engines, return results
\* that agree on every field except processed_at, however their steps are
\* interleaved with each other and with calls for other documents.
C21_StatelessAcrossCalls ==
    \A i \in Callers, j \in Callers :
        (t_pc[i] = "done" /\ t_pc[j] = "done" /\ t_call[i] = t_call[j])
            => Untimed(t_result[i]) = Untimed(t_result[j])

C21_Witness ==
    /\ t_pc[1] = "done" /\ t_pc[2] = "done"
    /\ t_call[1] = t_call[2]
    /\ t_result[1].success
    /\ t_result[1].processed_at # t_result[2].processed_at
    /\ Untimed(t_result[1]) = Untimed(t_result[2])

(***************************************************************************)
(* Properties of the hash functions (specification SpecHash)               *)
(***************************************************************************)
\* C22: generate_document_hash returns the SHA-256 digest of the bytes of the
\* call alone, whatever was hashed before, and verify_document_integrity
\* returns true exactly when the expected hash equals that digest.
C22_HashOfBytesAlone ==
    /\ h_returned.kind \in {"hash", "verify"}
           => h_returned.digest = h_sha[h_file_data]
    /\ h_returned.kind = "verify"
           => (h_returned.equal <=> h_expected_hash = h_sha[h_file_data])

\* a second call on the bytes hashed before, with the digest as expected hash
C22_Witness ==
    /\ h_returned.kind = "verify"
    /\ h_returned.equal
    /\ h_hasher = h_file_data
    /\ Len(h_file_data) = 1
    /\ h_sha[<<>>] # h_sha[h_file_data]

(***************************************************************************)
(* Properties of calculate_confidence (specification SpecScore)            *)
(***************************************************************************)
\* the reference formula in units of 1/2000, from the arguments: 0.5; with an
\* avg_confidence, the mean of the score and avg_confidence / 100; 0.1 for more
\* than 100 characters and 0.1 for more than 500; 0.1 for more than 2 fields
\* and 0.1 for more than 5; 0.05 off per issue; clamped to [0.1, 1.0]
ReferenceScore ==
    LET meta == s_extracted_data.metadata
        length == Len(s_extracted_data.text)
        fields == Cardinality(DOMAIN s_parsed_data)
        blended == IF "avg_confidence" \in DOMAIN meta
                   THEN 500 + meta["avg_confidence"] ELSE 1000
        raw == blended + (IF length > 100 THEN 200 ELSE 0)
                       + (IF length > 500 THEN 200 ELSE 0)
                       + (IF fields > 2 THEN 200 ELSE 0)
                       + (IF fields > 5 THEN 200 ELSE 0)
                       - 100 * Len(s_extracted_data.issues)
    IN  IF raw < 200 THEN 200 ELSE IF raw > 2000 THEN 2000 ELSE raw

InPageLoop == pc = "ocr"

ScannedReturned ==
    pc \in {"parse", "score", "done"} /\ extracted_data.method = "ocr_pdf"

\* the text segments and the issues recorded for page k
SegmentsOfPage(k) ==
    {i \in 1..Len(acc.all_text) :
         StartsWith(acc.all_text[i], W.page_open \o Str(k) \o W.page_close)}

IssuesOfPage(k) == {i \in 1..Len(acc.issues) : acc.issues[i].page = k}

\* C24: in process_scanned_pdf every page read so far has contributed exactly
\* one text segment or exactly one issue, never both and never neither, also
\* after a page without text or a page whose OCR raised; the outcome is
\* returned when every rendered page has been read, with method ocr_pdf and
\* page_count the number of rendered pages.
C24_PageFailuresAreLocal ==
    /\ (InPageLoop \/ ScannedReturned)
           => /\ Len(ocr_log) = page_num
              /\ page_num <= images
              /\ \A k \in 1..page_num :
                     /\ Cardinality(SegmentsOfPage(k)) + Cardinality(IssuesOfPage(k)) = 1
                     /\ (SegmentsOfPage(k) # {})
                            <=> (~ocr_log[k].raises /\ Strip(ocr_log[k].text) # <<>>)
              /\ Len(acc.all_text) + Len(acc.issues) = page_num
    /\ ScannedReturned
           => /\ page_num = images
              /\ images = Len(content.pages)
              /\ extracted_data.metadata = Put(EmptyDict, "page_count", images)
              /\ extracted_data.issues = acc.issues
              /\ extracted_data.text = Join(acc.all_text, <<"\n", "\n">>)

\* a first page whose OCR raised, a second page without text, and the outcome
C24_Witness ==
    /\ ScannedReturned
    /\ images = 2
    /\ ocr_log[1].raises
    /\ ~ocr_log[2].raises /\ Strip(ocr_log[2].text) = <<>>
    /\ Len(extracted_data.issues) = 2
    /\ extracted_data.metadata["page_count"] = 2

\* process_pdf has made its digital attempt
DigitalAttempted == "extract_text_from_pdf" \in calls

\* the digital text has a character that is no white space and more than 50
\* characters
DigitalTextUsable ==
    /\ \E i \in 1..Len(text_data.text) : text_data.text[i] \notin Space
    /\ Len(text_data.text) >= 51

\* process_pdf has gone on to process_scanned_pdf
OcrFallback == pc \in {"convert", "ocr"} \/ "process_scanned_pdf" \in calls

ExtractionReturned == pc \in {"parse", "score"} \/ (pc = "done" /\ result.success)

\* C25: process_pdf takes the OCR fallback exactly when the digital text is not
\* accepted (blank, or of 50 characters or fewer, which is also what a failed
\* digital extraction gives); its outcome then has method ocr_pdf or error,
\* never the digital method; the digital attempt is made only for documents
\* routed as PDF, at most once per call, and a document routed as an image is
\* read by process_image without a digital attempt.
C25_FallbackWhenNotAccepted ==
    /\ [](/\ DigitalAttempted => (OcrFallback <=> ~DigitalTextUsable)
          /\ DigitalAttempted => file_type = W.pdf
          /\ (DigitalAttempted /\ ExtractionReturned)
                 => IF DigitalTextUsable
                    THEN extracted_data.method = "text_extraction"
                    ELSE extracted_data.method \in {"ocr_pdf", "error"}
          /\ (ExtractionReturned /\ file_type # W.pdf)
                 => /\ ~DigitalAttempted /\ ~OcrFallback
                    /\ "process_image" \in calls
                    /\ extracted_data.method \in {"ocr_image", "error"})
    /\ [][pc' = "process_pdf" => ~DigitalAttempted /\ ~DigitalAttempted']_vars
    /\ [][(DigitalAttempted /\ DigitalAttempted') => text_data' = text_data]_vars

\* a digital text of exactly 50 characters is not accepted: the pages are read
\* by OCR
C25_Witness ==
    /\ DigitalAttempted
    /\ Len(text_data.text) = 50
    /\ Strip(text_data.text) # <<>>
    /\ ExtractionReturned
    /\ extracted_data.method = "ocr_pdf"

\* process_document returned a success result whose text is the digital text
\* of a PDF
DigitalResult ==
    /\ pc = "done"
    /\ result.success
    /\ result.extracted_data.processing_info.processing_method = "text_extraction"

\* C29: a success result of the digital-text path has no issues and no OCR
\* confidence in its metadata, and its confidence is 0.5 plus 0.1 for each of
\* the four bonuses its text length and field count earn, hence in [0.5, 0.9]
\* (in thousandths).
C29_DigitalPathScore ==
    DigitalResult
        => LET text_length == Len(result.extracted_data.raw_text)
               parsed_fields == Cardinality(DOMAIN result.extracted_data.parsed_fields)
               bonuses == {b \in {"text_low", "text_high", "fields_low", "fields_high"} :
                               CASE b = "text_low" -> text_length > 100
                                 [] b = "text_high" -> text_length > 500
                                 [] b = "fields_low" -> parsed_fields > 2
                                 [] b = "fields_high" -> parsed_fields > 5}
           IN  /\ result.issues = <<>>
               /\ ~Has(result.extracted_data.metadata, "avg_confidence")
               /\ result.confidence = 500 + 100 * Cardinality(bonuses)
               /\ result.confidence \in 500..900

\* a digital text of more than 100 characters with more than two fields: 0.7
C29_Witness ==
    /\ DigitalResult
    /\ Len(result.extracted_data.raw_text) > 100
    /\ Cardinality(DOMAIN result.extracted_data.parsed_fields) > 2
    /\ result.confidence = 700

(***************************************************************************)
(* Further properties of extract_document_data (specification SpecOcr)     *)
(***************************************************************************)
\* a field value that is null or a string of white space only
AbsentValue(v) ==
    v.kind = "none" \/ (v.kind = "str" /\ \A i \in 1..Len(v.s) : v.s[i] \in Space)

\* the text w occurs in the text t
OccursIn(w, t) == \E i \in 1..(Len(t) - Len(w) + 1) : SubSeq(t, i, i + Len(w) - 1) = w

\* C26: the field confidences of a response have exactly the keys of its
\* structured data; a field scores 0.0 if its value is null or a blank string,
\* 0.9 if the text of its value occurs verbatim in the raw text, 0.5 otherwise
\* (scores in tenths).
C26_FieldConfidences ==
    Answered
        => LET scores == o_response.field_confidences
               fields == o_response.structured_data
           IN  /\ DOMAIN scores = DOMAIN fields
               /\ \A f \in DOMAIN fields :
                      scores[f] = IF AbsentValue(fields[f]) THEN 0
                                  ELSE IF OccursIn(fields[f].s, o_response.raw_text) THEN 9
                                  ELSE 5

\* a response with a null field, a blank field, a field found in the raw text
\* and a field not found there
C26_Witness ==
    /\ Answered
    /\ \E f \in DOMAIN o_response.structured_data :
           o_response.structured_data[f].kind = "none" /\ o_response.field_confidences[f] = 0
    /\ \E f \in DOMAIN o_response.structured_data :
           /\ o_response.structured_data[f].kind = "str"
           /\ o_response.structured_data[f].s # <<>>
           /\ o_response.field_confidences[f] = 0
    /\ \E f \in DOMAIN o_response.structured_data : o_response.field_confidences[f] = 9
    /\ \E f \in DOMAIN o_response.structured_data : o_response.field_confidences[f] = 5

(***************************************************************************)
(* Further properties of parse_document_content (specification SpecParse)  *)
(***************************************************************************)
Parsed == p_pc = "parsed"

\* the text holds line n of ParseLines
HasLine(n) == \E i \in 1..Len(p_lines) : p_lines[i] = n

\* the number n / d
IsNumber(v, n, d) == v.num * d = n * v.den

\* C27: a field is in the field map only if one of its patterns matches and,
\* for a number, the matched text converts; it never holds a default.  The
\* lines "Total: ," and "Value: ," of ParseLines (6 and 13) match a numeric
\* pattern with a text that does not convert: alone they give
\* no field, and they stop neither the later candidates and patterns of the
\* field nor the fields parsed after it.
C27_FailedFieldsAbsent ==
    /\ (Parsed /\ Lower(p_type) = W.invoice)
           => /\ Has(p_parsed, "amount") <=> \E n \in 1..5 : HasLine(n)
              /\ Has(p_parsed, "amount") => p_parsed["amount"].num > 0
              /\ Has(p_parsed, "invoice_number") <=> HasLine(8)
              /\ Has(p_parsed, "date") <=> (HasLine(9) \/ HasLine(10) \/ HasLine(11))
              /\ Has(p_parsed, "customer_name") <=> HasLine(12)
              /\ Has(p_parsed, "due_date") <=> HasLine(11)
    /\ (Parsed /\ Lower(p_type) = W.contract)
           => /\ DOMAIN p_parsed = IF HasLine(14) THEN {"contract_value"} ELSE {}
              /\ HasLine(14) => IsNumber(p_parsed["contract_value"], 90, 1)
    /\ (Parsed /\ Lower(p_type) = W.bank_statement)
           => /\ DOMAIN p_parsed = IF HasLine(4) THEN {"balance"} ELSE {}
              /\ HasLine(4) => IsNumber(p_parsed["balance"], 200075, 100)

\* an invoice whose first total does not convert: the amount is the second
\* total
C27_Witness ==
    /\ Parsed
    /\ p_type = W.invoice
    /\ p_lines = <<6, 1>>
    /\ Has(p_parsed, "amount")
    /\ IsNumber(p_parsed["amount"], 120050, 100)

\* the document types with a rule set of their own
KnownTypes == {W.invoice, W.contract, W.identity, W.bank_statement}

\* the keys the rule set of a known type assigns
KeysOf(known) ==
    CASE known = W.invoice ->
             {"invoice_number", "amount", "date", "customer_name", "due_date"}
      [] known = W.contract ->
             {"parties", "contract_value"}
                 \cup {contract_date_patterns[k].key : k \in 1..Len(contract_date_patterns)}
      [] known = W.identity -> {"name", "id_number", "date_of_birth"}
      [] known = W.bank_statement ->
             {"account_number", "balance", "period_start", "period_end"}

GenericKeys == {"dates_found", "amounts_found", "emails_found", "phones_found"}

\* the lines of ParseLines without a digit
LinesWithoutNumber == {6, 12, 13}

\* C28: a document type that, in lower case, is none of invoice, contract,
\* identity and bank_statement is parsed by the generic parser, whose field
\* map has no key but dates_found, amounts_found, emails_found and
\* phones_found, each with a non-empty list; a known type, in any case of
\* letters, is parsed by its own rule set.  The date lines of ParseLines are
\* 9, 10 and 11, the invoice number is line 8, the address and the telephone
\* number are line 15.
C28_UnknownTypesGeneric ==
    Parsed
        => IF Lower(p_type) \in KnownTypes
           THEN /\ DOMAIN p_parsed \subseteq KeysOf(Lower(p_type))
                /\ Lower(p_type) = W.invoice
                       => (Has(p_parsed, "invoice_number") <=> HasLine(8))
                /\ Lower(p_type) = W.contract
                       => (Has(p_parsed, "contract_value") <=> HasLine(14))
                /\ Lower(p_type) = W.bank_statement
                       => (Has(p_parsed, "balance") <=> HasLine(4))
           ELSE /\ DOMAIN p_parsed \subseteq GenericKeys
                /\ \A k \in DOMAIN p_parsed : p_parsed[k] # <<>>
                /\ Has(p_parsed, "dates_found")
                       <=> (HasLine(9) \/ HasLine(10) \/ HasLine(11))
                /\ Has(p_parsed, "amounts_found")
                       <=> \E i \in 1..Len(p_lines) : p_lines[i] \notin LinesWithoutNumber
                /\ Has(p_parsed, "emails_found") <=> HasLine(15)
                /\ Has(p_parsed, "phones_found") <=> HasLine(15)

\* a receipt with an e-mail address and a telephone number and no date
C28_Witness ==
    /\ Parsed
    /\ p_type = <<"r", "e", "c", "e", "i", "p", "t">>
    /\ DOMAIN p_parsed = {"amounts_found", "emails_found", "phones_found"}

\* a known type written with a capital letter is parsed by its rule set
C28_WitnessKnown ==
    /\ Parsed
    /\ p_type = <<"I", "n", "v", "o", "i", "c", "e">>
    /\ Has(p_parsed, "invoice_number")

(***************************************************************************)
(* Properties of bulk_extract_documents (specification SpecBulk)           *)
(***************************************************************************)
\* the file names of a list of entries
NamesOf(entries) == [i \in 1..Len(entries) |-> entries[i].filename]

\* the position in the batch of the upload with this file name
PositionOf(name) == CHOOSE i \in 1..Len(b_files) : b_files[i].filename = name

\* the entries of a list are uploads of the batch, in the order of the batch
InInputOrder(entries) ==
    /\ \A i \in 1..Len(entries) : \E j \in 1..Len(b_files) : b_files[j].filename = entries[i].filename
    /\ \A i, j \in 1..Len(entries) :
           i < j => PositionOf(entries[i].filename) < PositionOf(entries[j].filename)

\* the uploads 1..n are each in exactly one of the two lists, and nothing else is
SplitOfFirst(n) ==
    /\ Range(NamesOf(b_results)) \cap Range(NamesOf(b_failed_files)) = {}
    /\ Range(NamesOf(b_results)) \cup Range(NamesOf(b_failed_files))
           = {b_files[i].filename : i \in 1..n}
    /\ Len(b_results) + Len(b_failed_files) = n
    /\ InInputOrder(b_results)
    /\ InInputOrder(b_failed_files)

\* C30: for a batch of at most max_bulk_ocr_count files, the loop is at file
\* b_index when exactly the files before it are each in one of the two lists,
\* in input order; the response is a 200 whose lists hold every file of the
\* batch exactly once, whatever failed, with success_count + failure_count =
\* total_processed = the number of files.
C30_BulkAccounting ==
    /\ b_pc = "loop" => SplitOfFirst(b_index - 1)
    /\ (b_pc = "returned" /\ Len(b_files) <= max_bulk_ocr_count)
           => /\ b_response.status = 200
              /\ SplitOfFirst(Len(b_files))
              /\ b_response.processed_files = b_results
              /\ b_response.failed_files = b_failed_files
              /\ b_response.success_count = Len(b_response.processed_files)
              /\ b_response.failure_count = Len(b_response.failed_files)
              /\ b_response.total_processed = Len(b_files)
              /\ b_response.success_count + b_response.failure_count
                     = b_response.total_processed

\* a batch whose first file fails and whose second file succeeds
C30_Witness ==
    /\ b_pc = "returned"
    /\ Len(b_files) = 2
    /\ b_response.status = 200
    /\ NamesOf(b_response.failed_files) = <<UploadName(1)>>
    /\ NamesOf(b_response.processed_files) = <<UploadName(2)>>
====
